---- MODULE Spec2Model ----
(***************************************************************************)
(* Nova Launcher (src/src/main.py): the background workers                 *)
(* (MinecraftVersionThread, MinecraftInstallThread,                        *)
(* MinecraftLauncherThread) and the foreground control flow of             *)
(* NovaLauncher that starts them and consumes their signals.               *)
(*                                                                         *)
(* Python strings are sequences of one-character strings, so that split,   *)
(* startswith, endswith and substring tests are computed and not assumed.  *)
(* An f-string is a record [fmt, args]: the template and the values        *)
(* substituted into it.                                                    *)
(***************************************************************************)
EXTENDS Integers, Sequences, FiniteSets, TLC

\* ------------------------------------------------------------------ bounds
\* progress-sink callbacks one installer run may make
MaxReports == 1
\* pending QTimer.singleShot(..., hide_loading) timers that are tracked
MaxHideTimers == 2
\* modal dialogs that may be nested (each runs its own event loop)
MaxModals == 2
\* install workers the model can represent as running at once
MaxInstalls == 2
\* launch workers that may be running or waiting to be handled at once
MaxLaunches == 1
\* catalog fetches that may be running or scheduled at once
MaxFetches == 2
\* tokens of an argument list get_minecraft_command returns
MaxCommand == 4

\* ------------------------------------------------------ program constants
\* NovaLauncher.max_retries
max_retries == 5

\* config.DEFAULT_SETTINGS["ram_allocation"]
DEFAULT_RAM_ALLOCATION == 2048

\* ----------------------------------------------------------------- strings
\* Python None where a string is expected (distinct from the empty string)
None == <<"None">>

Dash == "-"

Falsy(s) == s = None \/ s = <<>>

\* s.split('-')[-1]: the part of s after its last '-', all of s if there is none
SplitLast(s) ==
    IF \E i \in 1..Len(s) : s[i] = Dash
    THEN LET i == CHOOSE j \in 1..Len(s) :
                    s[j] = Dash /\ \A k \in (j+1)..Len(s) : s[k] # Dash
         IN SubSeq(s, i + 1, Len(s))
    ELSE s

StartsWith(s, p) == Len(p) <= Len(s) /\ SubSeq(s, 1, Len(p)) = p

EndsWith(s, p) == Len(p) <= Len(s) /\ SubSeq(s, Len(s) - Len(p) + 1, Len(s)) = p

\* p in s
Contains(s, p) ==
    \E i \in 0..(Len(s) - Len(p)) : SubSeq(s, i + 1, i + Len(p)) = p

\* base ids of release records (no '-' occurs in a release id)
V120 == <<"1", ".", "2">>
V1201 == <<"1", ".", "2", ".", "1">>
ReleaseIds == {V120, V1201}

\* a Forge build string as forge.find_forge_version returns it
ForgeBuild == <<"1", ".", "2", "-", "4">>
ForgeVersionStrings == {None, <<>>, ForgeBuild}

FabricLoaderPrefix == <<"f", "a", "b", "r", "i", "c", "-", "l", "o", "a", "d", "e", "r", "-">>

\* the directory mclib.fabric.install_fabric creates for a base id:
\* fabric-loader-<loader version>-<base id>
FabricIdFor(base) == FabricLoaderPrefix \o <<"9", "-">> \o base

\* the directory forge.install_forge_version creates for the build string
\* <base id>-<forge build>: <base id>-forge-<forge build>
ForgeIdFor(build) ==
    LET i == CHOOSE j \in 1..Len(build) :
                 build[j] = Dash /\ \A k \in 1..(j-1) : build[k] # Dash
    IN SubSeq(build, 1, i) \o <<"f", "o", "r", "g", "e", "-">> \o SubSeq(build, i + 1, Len(build))

OverlayTypes == {"fabric", "forge"}

VersionTypes == {"vanilla", "fabric", "forge"}

\* config.DEFAULT_MINECRAFT_DIR, and a directory chosen in the settings dialog
DEFAULT_MINECRAFT_DIR == "~/.minecraft"
CustomDir == "/games/mc"
Dirs == {DEFAULT_MINECRAFT_DIR, CustomDir}

\* the item data of a combo entry: {"id", "type"[, "forge_version"]}
VersionData ==
    [id : ReleaseIds, type : VersionTypes, forge_version : ForgeVersionStrings]

\* a formatted text: the template fmt with a and b substituted for its string
\* placeholders and str(err) for its exception placeholder
Msg(fmt, a, b, err) == [fmt |-> fmt, a |-> a, b |-> b, err |-> err]

\* str(e) of an exception: the template of its message and the string in it
Exc(fmt, arg) == [fmt |-> fmt, arg |-> arg]

NoExc == Exc("", <<>>)

\* the exceptions the external collaborators may raise
Errors == {Exc("network error", <<>>)}

\* a status text an installer passes to callback["setStatus"]
InstallerStatus == Msg("Download Libraries", <<>>, <<>>, NoExc)

\* max_value of a progress report that carries none
NoMax == <<>>

\* (value, max_value) pairs an installer passes to callback["setProgress"]:
\* half way, complete, value above max, negative value, no max, max of zero
ProgressReports ==
    { [value |-> 1, max_value |-> <<2>>], [value |-> 2, max_value |-> <<2>>],
      [value |-> 3, max_value |-> <<2>>], [value |-> -1, max_value |-> <<2>>],
      [value |-> 1, max_value |-> NoMax], [value |-> 1, max_value |-> <<0>>] }

\* ------------------------------------------------------------- variables
VARIABLES
    install_thread,     \* the MinecraftInstallThread object and the position of run()
    calls,              \* calls into minecraft_launcher_lib of the current install run and their outcomes, in order
    version_threads,    \* MinecraftVersionThread workers that are running
    launch_threads,     \* MinecraftLauncherThread workers that are running
    signals,            \* signals emitted by workers, queued for the foreground
    fs,                 \* per directory: whether it exists, the names under its
                        \* versions/ and the ids x whose versions/x/x.jar exists
    settings_file,      \* content of config.SETTINGS_FILE
    app,                \* attributes of NovaLauncher (settings and retry counter)
    ui,                 \* widgets: play_button, loading_container, status_label,
                        \* version_combo
    hide_timers,        \* pending single-shot timers bound to hide_loading
    retry_timers,       \* pending single-shot timers bound to load_versions
    modals,             \* open modal dialogs, innermost last
    installs_in_flight, \* install workers started whose completion is not yet handled
    processes,          \* per launch run whose signal is not yet handled: the command
                        \* get_minecraft_command returned and the command passed
                        \* to subprocess.Popen, if the run got that far
    load_history        \* record of the catalog loads: the display name last made
                        \* current in version_combo, the empty lists handled and
                        \* the retries scheduled since the load in progress was
                        \* started, and the last projection with its inputs

vars == <<install_thread, calls, version_threads, launch_threads, signals, fs,
          settings_file, app, ui, hide_timers, retry_timers, modals,
          installs_in_flight, processes, load_history>>

\* what a step of a worker leaves alone, besides signals and fs
ui_vars == <<version_threads, launch_threads, settings_file, app, ui, hide_timers,
             retry_timers, modals, installs_in_flight, processes, load_history>>

fs_vars == <<fs>>

\* ------------------------------------------------------------ file system
\* os.makedirs(d)
MakeDirs(f, d) == [f EXCEPT ![d].exists = TRUE]

\* an installer lays out versions/<name>/ under d (creating d on the way)
AddVersion(f, d, name) ==
    [f EXCEPT ![d].exists = TRUE, ![d].versions = @ \cup {name}]

\* an installer writes versions/<id>/<id>.jar under d
AddJar(f, d, id) == [f EXCEPT ![d].jars = @ \cup {id}]

\* ------------------------------------------------ MinecraftInstallThread
\* int(x) of Python for the quotient a / b with b > 0: truncation toward zero
\* (for the values of ProgressReports the float product (a / b) * 100 is exact
\* enough that int() of it equals the truncated integer quotient)
TruncDiv(a, b) == IF a >= 0 THEN a \div b ELSE -((-a) \div b)

\* MinecraftInstallThread.__init__
InstallThreadInit(minecraft_dir, version, version_type, forge_version_string) ==
    [ pc |-> "start",
      minecraft_directory |-> minecraft_dir,
      version |-> version,
      version_type |-> version_type,
      forge_version_string |-> forge_version_string,
      base_vanilla_id |-> None,
      current_status |-> Msg("Starting installation...", <<>>, <<>>, NoExc),
      current_progress |-> 0,
      reports |-> 0 ]

\* no install thread has been constructed yet
NoInstallThread ==
    [InstallThreadInit(DEFAULT_MINECRAFT_DIR, None, "vanilla", None) EXCEPT !.pc = "none"]

ProgressSignal(t) ==
    [sig |-> "progress", percent |-> t.current_progress, status |-> t.current_status]

CompleteSignal(success, message) ==
    [sig |-> "complete", success |-> success, message |-> message]

Emit(s) == signals' = Append(signals, s)

\* set_status: store the status; the caller emits ProgressSignal of the result
set_status(t, status) == [t EXCEPT !.current_status = status]

\* set_progress: store the percentage when a positive max_value is given
set_progress(t, value, max_value) ==
    IF max_value # NoMax /\ max_value[1] > 0
    THEN [t EXCEPT !.current_progress = TruncDiv(value * 100, max_value[1])]
    ELSE t

\* the outer handler wording its message like the handler of the Forge step
GeneralErrorAsOverlay(t, e) ==
    CompleteSignal(FALSE,
        Msg("Vanilla {0} installed, but Forge failed: {err}", t.base_vanilla_id, <<>>, e))

\* the handler of the outer try block of run()
GeneralError(t, e) ==
    CompleteSignal(FALSE, Msg("Error installing {0}: {err}", t.version, <<>>, e))

FabricError(t, e) ==
    CompleteSignal(FALSE,
        Msg("Vanilla {0} installed, but Fabric failed: {err}", t.base_vanilla_id, <<>>, e))

ForgeError(t, e) ==
    CompleteSignal(FALSE,
        Msg("Vanilla {0} installed, but Forge failed: {err}", t.base_vanilla_id, <<>>, e))

MissingForge(t) ==
    CompleteSignal(FALSE,
        Msg("Missing Forge version info for {0}", t.base_vanilla_id, <<>>, NoExc))

UnsupportedForge(t) ==
    Exc("Automatic installation not supported for Forge {0}. Please install manually.",
        t.forge_version_string)

SuccessMessage(t) ==
    IF t.version_type = "fabric"
    THEN Msg("Fabric {0} ({1}) installed successfully.", t.base_vanilla_id, t.version, NoExc)
    ELSE IF t.version_type = "forge"
    THEN Msg("Forge {0} installed successfully.", t.base_vanilla_id, <<>>, NoExc)
    ELSE Msg("Minecraft {0} installed successfully.", t.version, <<>>, NoExc)

\* the log of the thread's dealings with minecraft_launcher_lib: a function is
\* entered (Call), returns normally (Returned), returns a boolean (Answered) or
\* raises (Raised)
Call(fn, arg) == [fn |-> fn, arg |-> arg, ev |-> "call"]

Returned(fn, arg) == [fn |-> fn, arg |-> arg, ev |-> "return"]

Answered(fn, arg, b) == [fn |-> fn, arg |-> arg, ev |-> IF b THEN "true" ELSE "false"]

Raised(fn, arg) == [fn |-> fn, arg |-> arg, ev |-> "raise"]

\* run(), up to the first status: the base id and "Installing Vanilla ..."
RunBegin ==
    /\ install_thread.pc = "start"
    /\ LET base == IF install_thread.version_type = "fabric"
                   THEN SplitLast(install_thread.version)
                   ELSE install_thread.version
           t == set_status([install_thread EXCEPT !.base_vanilla_id = base],
                           Msg("Installing Vanilla {0}...", base, <<>>, NoExc))
       IN /\ install_thread' = [t EXCEPT !.pc = "mkdir"]
          /\ Emit(ProgressSignal(t))
    /\ UNCHANGED <<calls, fs_vars, ui_vars>>

\* run(): create the game directory when it does not exist
RunMakeDirs ==
    /\ install_thread.pc = "mkdir"
    /\ \/ /\ fs[install_thread.minecraft_directory].exists
          /\ install_thread' = [install_thread EXCEPT !.pc = "base"]
          /\ UNCHANGED <<signals, fs>>
       \/ /\ ~fs[install_thread.minecraft_directory].exists
          /\ fs' = MakeDirs(fs, install_thread.minecraft_directory)
          /\ install_thread' = [install_thread EXCEPT !.pc = "base"]
          /\ UNCHANGED signals
       \/ /\ ~fs[install_thread.minecraft_directory].exists
          /\ \E e \in Errors :
                /\ Emit(GeneralError(install_thread, e))
                /\ install_thread' = [install_thread EXCEPT !.pc = "done"]
          /\ UNCHANGED fs
    /\ UNCHANGED <<calls, ui_vars>>

\* run() with the base installer left out: step 1 is skipped
RunBaseSkipped ==
    /\ install_thread.pc = "base"
    /\ install_thread' = [install_thread EXCEPT !.pc = "after_base"]
    /\ UNCHANGED <<calls, signals, fs_vars, ui_vars>>

\* run(): enter mclib.install.install_minecraft_version(base_vanilla_id, ...)
RunBaseCall ==
    /\ install_thread.pc = "base"
    /\ calls' = Append(calls, Call("install_minecraft_version", install_thread.base_vanilla_id))
    /\ install_thread' = [install_thread EXCEPT !.pc = "in_base"]
    /\ UNCHANGED <<signals, fs_vars, ui_vars>>

\* the positions of run() inside an installer
InstallerPcs == {"in_base", "in_fabric", "in_forge"}

InInstaller == install_thread.pc \in InstallerPcs

\* an installer calls callback["setStatus"]
SinkSetStatus ==
    /\ InInstaller
    /\ install_thread.reports < MaxReports
    /\ LET t == set_status(install_thread, InstallerStatus)
       IN /\ install_thread' = [t EXCEPT !.reports = @ + 1]
          /\ Emit(ProgressSignal(t))
    /\ UNCHANGED <<calls, fs_vars, ui_vars>>

\* an installer calls callback["setProgress"] with one of reports
SinkSetProgress(reports) ==
    /\ InInstaller
    /\ install_thread.reports < MaxReports
    /\ \E r \in reports :
          LET t == set_progress(install_thread, r.value, r.max_value)
          IN /\ install_thread' = [t EXCEPT !.reports = @ + 1]
             /\ Emit(ProgressSignal(t))
    /\ UNCHANGED <<calls, fs_vars, ui_vars>>

\* install_minecraft_version returns: versions/<id>/<id>.jar is in place;
\* run() reports "Vanilla <id> installed."
RunBaseReturn ==
    /\ install_thread.pc = "in_base"
    /\ calls' = Append(calls, Returned("install_minecraft_version", install_thread.base_vanilla_id))
    /\ fs' = AddJar(AddVersion(fs, install_thread.minecraft_directory,
                                   install_thread.base_vanilla_id),
                    install_thread.minecraft_directory, install_thread.base_vanilla_id)
    /\ LET t == set_status(install_thread,
                    Msg("Vanilla {0} installed.", install_thread.base_vanilla_id, <<>>, NoExc))
       IN /\ install_thread' = [t EXCEPT !.pc = "after_base"]
          /\ Emit(ProgressSignal(t))
    /\ UNCHANGED ui_vars

\* install_minecraft_version raises and nothing reports it
RunBaseRaiseSilent ==
    /\ install_thread.pc = "in_base"
    /\ calls' = Append(calls, Raised("install_minecraft_version", install_thread.base_vanilla_id))
    /\ install_thread' = [install_thread EXCEPT !.pc = "done"]
    /\ UNCHANGED <<signals, fs_vars, ui_vars>>

\* install_minecraft_version raises: the outer handler reports the failure
RunBaseRaise ==
    /\ install_thread.pc = "in_base"
    /\ calls' = Append(calls, Raised("install_minecraft_version", install_thread.base_vanilla_id))
    /\ \E e \in Errors : Emit(GeneralError(install_thread, e))
    /\ install_thread' = [install_thread EXCEPT !.pc = "done"]
    /\ UNCHANGED <<fs_vars, ui_vars>>

\* run() after step 1 without the test of forge_version_string
RunAfterBaseUnchecked ==
    /\ install_thread.pc = "after_base"
    /\ IF install_thread.version_type = "fabric"
       THEN LET t == set_status(install_thread,
                        Msg("Installing Fabric for {0}...", install_thread.base_vanilla_id,
                            <<>>, NoExc))
            IN /\ install_thread' = [t EXCEPT !.pc = "fabric"]
               /\ Emit(ProgressSignal(t))
       ELSE IF install_thread.version_type = "forge"
       THEN LET t == set_status(install_thread,
                        Msg("Installing Forge for {0} ({1})...",
                            install_thread.base_vanilla_id,
                            install_thread.forge_version_string, NoExc))
            IN /\ install_thread' = [t EXCEPT !.pc = "forge_check"]
               /\ Emit(ProgressSignal(t))
       ELSE /\ Emit(CompleteSignal(TRUE, SuccessMessage(install_thread)))
            /\ install_thread' = [install_thread EXCEPT !.pc = "done"]
    /\ UNCHANGED <<calls, fs_vars, ui_vars>>

\* run() after step 1: branch on version_type
RunAfterBase ==
    /\ install_thread.pc = "after_base"
    /\ IF install_thread.version_type = "fabric"
       THEN LET t == set_status(install_thread,
                        Msg("Installing Fabric for {0}...", install_thread.base_vanilla_id,
                            <<>>, NoExc))
            IN /\ install_thread' = [t EXCEPT !.pc = "fabric"]
               /\ Emit(ProgressSignal(t))
       ELSE IF install_thread.version_type = "forge"
       THEN IF Falsy(install_thread.forge_version_string)
            THEN /\ Emit(MissingForge(install_thread))
                 /\ install_thread' = [install_thread EXCEPT !.pc = "done"]
            ELSE LET t == set_status(install_thread,
                             Msg("Installing Forge for {0} ({1})...",
                                 install_thread.base_vanilla_id,
                                 install_thread.forge_version_string, NoExc))
                 IN /\ install_thread' = [t EXCEPT !.pc = "forge_check"]
                    /\ Emit(ProgressSignal(t))
       ELSE /\ Emit(CompleteSignal(TRUE, SuccessMessage(install_thread)))
            /\ install_thread' = [install_thread EXCEPT !.pc = "done"]
    /\ UNCHANGED <<calls, fs_vars, ui_vars>>

\* run(): enter mclib.fabric.install_fabric(base_vanilla_id, ...)
RunFabricCall ==
    /\ install_thread.pc = "fabric"
    /\ calls' = Append(calls, Call("install_fabric", install_thread.base_vanilla_id))
    /\ install_thread' = [install_thread EXCEPT !.pc = "in_fabric"]
    /\ UNCHANGED <<signals, fs_vars, ui_vars>>

\* install_fabric returns; run() reports "Fabric for <id> installed."
RunFabricReturn ==
    /\ install_thread.pc = "in_fabric"
    /\ calls' = Append(calls, Returned("install_fabric", install_thread.base_vanilla_id))
    /\ fs' = AddVersion(fs, install_thread.minecraft_directory,
                        FabricIdFor(install_thread.base_vanilla_id))
    /\ LET t == set_status(install_thread,
                    Msg("Fabric for {0} installed.", install_thread.base_vanilla_id, <<>>, NoExc))
       IN /\ install_thread' = [t EXCEPT !.pc = "success"]
          /\ Emit(ProgressSignal(t))
    /\ UNCHANGED ui_vars

\* install_fabric raises: the inner handler attributes the failure to Fabric
RunFabricRaise ==
    /\ install_thread.pc = "in_fabric"
    /\ calls' = Append(calls, Raised("install_fabric", install_thread.base_vanilla_id))
    /\ \E e \in Errors : Emit(FabricError(install_thread, e))
    /\ install_thread' = [install_thread EXCEPT !.pc = "done"]
    /\ UNCHANGED <<fs_vars, ui_vars>>

\* run() going on to the Forge installer whatever supports_automatic_install
\* answers
RunForgeCheckIgnored ==
    /\ install_thread.pc = "forge_check"
    /\ LET fn == "supports_automatic_install"
           arg == install_thread.forge_version_string
           entered == Append(calls, Call(fn, arg))
       IN \/ /\ \E b \in BOOLEAN : calls' = Append(entered, Answered(fn, arg, b))
             /\ install_thread' = [install_thread EXCEPT !.pc = "forge"]
             /\ UNCHANGED signals
          \/ /\ calls' = Append(entered, Raised(fn, arg))
             /\ \E e \in Errors : Emit(ForgeError(install_thread, e))
             /\ install_thread' = [install_thread EXCEPT !.pc = "done"]
    /\ UNCHANGED <<fs_vars, ui_vars>>

\* run(): forge.supports_automatic_install(forge_version_string)
RunForgeCheck ==
    /\ install_thread.pc = "forge_check"
    /\ LET fn == "supports_automatic_install"
           arg == install_thread.forge_version_string
           entered == Append(calls, Call(fn, arg))
       IN \/ /\ calls' = Append(entered, Answered(fn, arg, TRUE))
             /\ install_thread' = [install_thread EXCEPT !.pc = "forge"]
             /\ UNCHANGED signals
          \/ /\ calls' = Append(entered, Answered(fn, arg, FALSE))
             /\ Emit(ForgeError(install_thread, UnsupportedForge(install_thread)))
             /\ install_thread' = [install_thread EXCEPT !.pc = "done"]
          \/ /\ calls' = Append(entered, Raised(fn, arg))
             /\ \E e \in Errors : Emit(ForgeError(install_thread, e))
             /\ install_thread' = [install_thread EXCEPT !.pc = "done"]
    /\ UNCHANGED <<fs_vars, ui_vars>>

\* run(): enter forge.install_forge_version(forge_version_string, ...)
RunForgeCall ==
    /\ install_thread.pc = "forge"
    /\ calls' = Append(calls, Call("install_forge_version",
                                  install_thread.forge_version_string))
    /\ install_thread' = [install_thread EXCEPT !.pc = "in_forge"]
    /\ UNCHANGED <<signals, fs_vars, ui_vars>>

\* install_forge_version returns; run() reports "Forge for <id> installed."
RunForgeReturn ==
    /\ install_thread.pc = "in_forge"
    /\ calls' = Append(calls, Returned("install_forge_version", install_thread.forge_version_string))
    /\ fs' = AddVersion(fs, install_thread.minecraft_directory,
                        ForgeIdFor(install_thread.forge_version_string))
    /\ LET t == set_status(install_thread,
                    Msg("Forge for {0} installed.", install_thread.base_vanilla_id, <<>>, NoExc))
       IN /\ install_thread' = [t EXCEPT !.pc = "success"]
          /\ Emit(ProgressSignal(t))
    /\ UNCHANGED ui_vars

\* install_forge_version raises: the inner handler attributes the failure to Forge
RunForgeRaise ==
    /\ install_thread.pc = "in_forge"
    /\ calls' = Append(calls, Raised("install_forge_version", install_thread.forge_version_string))
    /\ \E e \in Errors : Emit(ForgeError(install_thread, e))
    /\ install_thread' = [install_thread EXCEPT !.pc = "done"]
    /\ UNCHANGED <<fs_vars, ui_vars>>

\* run(): completion after a successful overlay install
RunSuccess ==
    /\ install_thread.pc = "success"
    /\ Emit(CompleteSignal(TRUE, SuccessMessage(install_thread)))
    /\ install_thread' = [install_thread EXCEPT !.pc = "done"]
    /\ UNCHANGED <<calls, fs_vars, ui_vars>>

\* one step of MinecraftInstallThread.run, the installers reporting progress
\* values among reports
InstallThreadRun(reports) ==
    \/ RunBegin \/ RunMakeDirs \/ RunBaseCall \/ SinkSetStatus \/ SinkSetProgress(reports)
    \/ RunBaseReturn \/ RunBaseRaise \/ RunAfterBase
    \/ RunFabricCall \/ RunFabricReturn \/ RunFabricRaise
    \/ RunForgeCheck \/ RunForgeCall \/ RunForgeReturn \/ RunForgeRaise
    \/ RunSuccess

\* ------------------------------------------------------- Settings store
\* the dictionary save_settings writes
SettingsDoc(a) ==
    [ minecraft_directory |-> a.minecraft_directory,
      username |-> a.username,
      last_used_version |-> a.selected_version,
      ram_allocation |-> a.ram_allocation,
      java_path |-> a.java_path,
      show_fabric |-> a.show_fabric,
      show_forge |-> a.show_forge,
      show_snapshots |-> a.show_snapshots ]

\* the Python types of the values save_settings writes, by key
FlagKeys == {"show_fabric", "show_forge", "show_snapshots"}

\* json.dump of one value of the settings dictionary: None becomes null, a
\* bool true or false, an int a number, a str a string
JsonDump(k, value) ==
    IF k \in FlagKeys THEN [json |-> IF value THEN "true" ELSE "false"]
    ELSE IF k = "ram_allocation" THEN [json |-> "number", digits |-> value]
    ELSE IF k = "last_used_version" /\ value = None THEN [json |-> "null"]
    ELSE [json |-> "string", chars |-> value]

\* json.load of one value
JsonLoad(text) ==
    CASE text.json = "true" -> TRUE
      [] text.json = "false" -> FALSE
      [] text.json = "null" -> None
      [] text.json = "number" -> text.digits
      [] text.json = "string" -> text.chars

\* save_settings, its effect on the directories: the game directory is created
SaveFs(f, a) ==
    IF f[a.minecraft_directory].exists THEN f ELSE MakeDirs(f, a.minecraft_directory)

\* save_settings, its effect on SETTINGS_FILE, which lies in DEFAULT_MINECRAFT_DIR
\* whatever the game directory is: open(..., 'w') raises when that directory is
\* absent, and the handler swallows the exception
SaveFile(f, file, a) ==
    IF SaveFs(f, a)[DEFAULT_MINECRAFT_DIR].exists THEN <<SettingsDoc(a)>> ELSE file

\* --------------------------------------------- Version catalog projector
SnapshotPrefix == <<"[", "S", "]", " ">>
FabricLabel == <<"F", "a", "b", "r", "i", "c", " ">>
ForgeLabel == <<"F", "o", "r", "g", "e", " ">>

\* the build string forge.find_forge_version(vanilla_id) returns when it finds one
ForgeBuildFor(vanilla_id) == vanilla_id \o <<"-", "4">>

\* outcomes of forge.find_forge_version: a build string, None, or an exception
ForgeLookupOutcomes == {"found", "none", "raise"}

\* what find_forge_version does for each release id
ForgeLookups == [ReleaseIds -> ForgeLookupOutcomes]

\* combo.addItem(display_name, userData={"id", "type"[, "forge_version"]})
Entry(text, id, type, forge_version) ==
    [text |-> text, data |-> [id |-> id, type |-> type, forge_version |-> forge_version]]

\* a sort that leaves the records as the catalog has them
CatalogOrder(vs) == vs

\* list.sort(key=releaseTime, reverse=True): newest first, records with equal
\* keys keep their order
RECURSIVE SortNewestFirst(_)
SortNewestFirst(vs) ==
    IF vs = <<>> THEN <<>>
    ELSE LET h == Head(vs)
             rest == SortNewestFirst(Tail(vs))
             n == Cardinality({i \in 1..Len(rest) : rest[i].releaseTime > h.releaseTime})
         IN SubSeq(rest, 1, n) \o <<h>> \o SubSeq(rest, n + 1, Len(rest))

IsRelease(v) == v.type = "release"

IsSnapshot(v) == v.type = "snapshot"

\* the split that keeps the snapshots whatever the flag
CombinedWithSnapshots(versions, a) ==
    SortNewestFirst(SelectSeq(versions, IsSnapshot))
        \o SortNewestFirst(SelectSeq(versions, IsRelease))

\* snapshots (if shown) newest first, then releases newest first
CombinedVersions(versions, a) ==
    (IF a.show_snapshots THEN SortNewestFirst(SelectSeq(versions, IsSnapshot)) ELSE <<>>)
        \o SortNewestFirst(SelectSeq(versions, IsRelease))

\* the entries when the Fabric entry is added for records of any type
EntriesFabricForAll(v, a, lookup) ==
    IF Falsy(v.id) THEN <<>>
    ELSE <<Entry((IF IsSnapshot(v) THEN SnapshotPrefix ELSE <<>>) \o v.id, v.id, "vanilla", None)>>
         \o (IF a.show_fabric
             THEN <<Entry(FabricLabel \o v.id, v.id, "fabric", None)>> ELSE <<>>)
         \o (IF a.show_forge /\ IsRelease(v) /\ lookup[v.id] = "found"
             THEN <<Entry(ForgeLabel \o v.id, v.id, "forge", ForgeBuildFor(v.id))>> ELSE <<>>)

\* the entries when the Forge entry is added whatever the lookup gives
EntriesForgeUnchecked(v, a, lookup) ==
    IF Falsy(v.id) THEN <<>>
    ELSE <<Entry((IF IsSnapshot(v) THEN SnapshotPrefix ELSE <<>>) \o v.id, v.id, "vanilla", None)>>
         \o (IF a.show_fabric /\ IsRelease(v)
             THEN <<Entry(FabricLabel \o v.id, v.id, "fabric", None)>> ELSE <<>>)
         \o (IF a.show_forge /\ IsRelease(v)
             THEN <<Entry(ForgeLabel \o v.id, v.id, "forge", ForgeBuildFor(v.id))>> ELSE <<>>)

\* the entries update_versions appends for one record
EntriesFor(v, a, lookup) ==
    IF Falsy(v.id) THEN <<>>
    ELSE <<Entry((IF IsSnapshot(v) THEN SnapshotPrefix ELSE <<>>) \o v.id, v.id, "vanilla", None)>>
         \o (IF a.show_fabric /\ IsRelease(v)
             THEN <<Entry(FabricLabel \o v.id, v.id, "fabric", None)>> ELSE <<>>)
         \o (IF a.show_forge /\ IsRelease(v) /\ lookup[v.id] = "found"
             THEN <<Entry(ForgeLabel \o v.id, v.id, "forge", ForgeBuildFor(v.id))>> ELSE <<>>)

RECURSIVE ProcessedVersions(_, _, _)
ProcessedVersions(combined, a, lookup) ==
    IF combined = <<>> THEN <<>>
    ELSE EntriesFor(Head(combined), a, lookup) \o ProcessedVersions(Tail(combined), a, lookup)

\* combo.findText(text): index of the first entry with that text, -1 if none
FindText(items, text) ==
    IF \E i \in 1..Len(items) : items[i].text = text
    THEN (CHOOSE i \in 1..Len(items) :
              items[i].text = text /\ \A j \in 1..(i-1) : items[j].text # text) - 1
    ELSE -1

\* combo.currentText()
CurrentText(u) ==
    IF u.current_index >= 0 THEN u.combo[u.current_index + 1].text ELSE <<>>

\* a test that takes the part after the last '-' for entries of any type
MatchesStoredAnyType(d, stored) ==
    \/ stored = d.id
    \/ /\ ~Falsy(stored)
       /\ SplitLast(stored) = d.id

\* the test of the restoration loop for one entry
MatchesStored(d, stored) ==
    \/ stored = d.id
    \/ /\ ~Falsy(stored)
       /\ d.type \in OverlayTypes
       /\ SplitLast(stored) = d.id

\* index of the first entry the restoration loop accepts, -1 if none
FoundIndex(items, stored) ==
    IF \E i \in 1..Len(items) : MatchesStored(items[i].data, stored)
    THEN (CHOOSE i \in 1..Len(items) :
              /\ MatchesStored(items[i].data, stored)
              /\ \A j \in 1..(i-1) : ~MatchesStored(items[j].data, stored)) - 1
    ELSE -1

\* the selection after update_versions has filled the combo with items:
\* adding the first item to the empty combo makes it current and fires
\* currentIndexChanged(0), so update_selected_version(0) has run before the
\* restoration code reads self.selected_version
Restored(items, current_selection, a) ==
    LET after_add == IF Len(items) > 0 THEN items[1].data.id ELSE a.selected_version
        index == FindText(items, current_selection)
        found == FoundIndex(items, a.settings.last_used_version)
        At(i) == [index |-> i, selected |-> items[i + 1].data.id]
    IN IF Len(items) = 0 THEN [index |-> -1, selected |-> a.selected_version]
       ELSE IF index >= 0 THEN At(index)
       ELSE IF Falsy(after_add) THEN At(0)
       ELSE IF found >= 0 THEN At(found)
       ELSE At(0)

\* ------------------------------------------------ MinecraftVersionThread
VersionSignal(versions) == [sig |-> "version", versions |-> versions]

\* load_versions: start a MinecraftVersionThread
load_versions(n) == n + 1

\* an outcome of mclib.utils.get_version_list(): it returns a list or raises
Returns(versions) == [raises |-> FALSE, versions |-> versions]
Raises == [raises |-> TRUE, versions |-> <<>>]

\* MinecraftVersionThread.run, get_version_list() ending in one of outcomes:
\* the list is emitted, or the empty list when the call raised
VersionThreadRun(outcomes) ==
    /\ version_threads > 0
    /\ version_threads' = version_threads - 1
    /\ \E o \in outcomes :
          Emit(VersionSignal(IF o.raises THEN <<>> ELSE o.versions))
    /\ UNCHANGED <<install_thread, calls, launch_threads, fs, settings_file, app, ui,
                   hide_timers, retry_timers, modals, installs_in_flight,
                   processes, load_history>>

\* ----------------------------------------------------------- NovaLauncher
NoData == [id |-> None, type |-> "vanilla", forge_version |-> None]

\* a modal dialog: its kind, its text, and the version_data local of the
\* handler that waits for it to close
Modal(kind, text, data) == [kind |-> kind, text |-> text, data |-> data]

Bump(n, max) == IF n < max THEN n + 1 ELSE n

\* show_loading: the widgets
show_loading(u, is_launching) ==
    [u EXCEPT !.play_visible = FALSE,
              !.status_label = IF is_launching THEN "LAUNCHING" ELSE "DOWNLOADING",
              !.loading_visible = TRUE]

\* show_loading without the timer that hides the loading frame again
show_loading_untimed(n, is_launching) == n

\* show_loading: QTimer.singleShot(10000, self.hide_loading) when launching
show_loading_timers(n, is_launching) == IF is_launching THEN Bump(n, MaxHideTimers) ELSE n

\* install_minecraft leaving the button as it is
PlayLeftEnabled(u) == u

\* install_minecraft: self.play_button.setEnabled(False)
DisablePlay(u) == [u EXCEPT !.play_enabled = FALSE]

\* hide_loading
hide_loading(u) == [u EXCEPT !.loading_visible = FALSE, !.play_visible = TRUE]

\* update_selected_version(index)
update_selected_version(a, items, index) ==
    IF index >= 0 THEN [a EXCEPT !.selected_version = items[index + 1].data.id] ELSE a

\* the retry test admitting one attempt more
MayRetryInclusive(a) == a.version_retries <= max_retries

\* update_versions, the test that guards a retry
MayRetry(a) == a.version_retries < max_retries

\* the entries stay in the combo box
NotCleared(combo) == combo

\* update_versions: self.version_combo.clear()
Cleared(combo) == <<>>

\* a non-empty list that leaves the retry counter as it is
RetriesKept(a) == a

\* update_versions, on a non-empty list: self.version_retries = 0
ResetRetries(a) == [a EXCEPT !.version_retries = 0]

\* the record before any load has been handled
NoLoad == [selection |-> <<>>, empty_results |-> 0, retries |-> 0, projected |-> <<>>]

\* the record after the entry with the display name text became current
Selected(h, text) == [h EXCEPT !.selection = text]

\* the record of a catalog load started while version_combo shows text
StartLoad(h, text) == [h EXCEPT !.selection = text, !.empty_results = 0, !.retries = 0]

\* the record after update_versions handled an empty list, with or without a retry
EmptyHandled(h, retried) ==
    [h EXCEPT !.empty_results = @ + 1, !.retries = IF retried THEN @ + 1 ELSE @]

\* the release ids of versions for which find_forge_version gave a build string
Resolved(versions, lookup) ==
    {versions[i].id : i \in {j \in 1..Len(versions) :
                                /\ IsRelease(versions[j])
                                /\ ~Falsy(versions[j].id)
                                /\ lookup[versions[j].id] = "found"}}

\* the release ids for which update_versions itself calls
\* forge.find_forge_version while it fills the list
LookedUp(versions, a) ==
    {versions[i].id : i \in {j \in 1..Len(versions) :
                                /\ a.show_forge
                                /\ IsRelease(versions[j])
                                /\ ~Falsy(versions[j].id)}}

\* the record once update_versions has filled the list with items and made
\* the entry at index current: what was projected, under which flags and
\* lookup results
Populated(versions, a, lookup, items, index) ==
    [NoLoad EXCEPT
       !.selection = IF index >= 0 THEN items[index + 1].text ELSE <<>>,
       !.projected =
        << [versions |-> versions, show_fabric |-> a.show_fabric,
            show_forge |-> a.show_forge, show_snapshots |-> a.show_snapshots,
            resolved |-> IF a.show_forge THEN Resolved(versions, lookup) ELSE {},
            items |-> items] >>]

\* the slot of version_signal
update_versions ==
    /\ signals # <<>>
    /\ Head(signals).sig = "version"
    /\ signals' = Tail(signals)
    /\ LET versions == Head(signals).versions
           current_selection == CurrentText(ui)
       IN IF versions = <<>>
          THEN /\ ui' = [ui EXCEPT !.combo = Cleared(@), !.current_index = -1]
               /\ IF MayRetry(app)
                  THEN /\ app' = [app EXCEPT !.version_retries = @ + 1]
                       /\ retry_timers' = retry_timers + 1
                  ELSE UNCHANGED <<app, retry_timers>>
               /\ load_history' = EmptyHandled(load_history, MayRetry(app))
               /\ UNCHANGED <<fs, settings_file>>
          ELSE \E lookup \in ForgeLookups :
                  LET a0 == ResetRetries(app)
                      items == ProcessedVersions(CombinedVersions(versions, a0), a0, lookup)
                      r == Restored(items, current_selection, a0)
                      a1 == [a0 EXCEPT !.selected_version = r.selected]
                  IN /\ ui' = [ui EXCEPT !.combo = Cleared(@) \o items,
                                          !.current_index = r.index]
                     /\ app' = a1
                     /\ fs' = IF Len(items) > 0 THEN SaveFs(fs, a1) ELSE fs
                     /\ settings_file' =
                            IF Len(items) > 0 THEN SaveFile(fs, settings_file, a1)
                            ELSE settings_file
                     /\ load_history' = Populated(versions, a1, lookup, items, r.index)
                     /\ UNCHANGED retry_timers
    /\ UNCHANGED <<install_thread, calls, version_threads, launch_threads, hide_timers,
                   modals, installs_in_flight, processes>>

\* QTimer.singleShot(3000, self.load_versions) fires
TimerLoadVersions ==
    /\ retry_timers > 0
    /\ retry_timers' = retry_timers - 1
    /\ version_threads' = load_versions(version_threads)
    /\ UNCHANGED <<install_thread, calls, launch_threads, signals, fs, settings_file, app,
                   ui, hide_timers, modals, installs_in_flight,
                   processes, load_history>>

\* ---------------------------------------------------- Installation detector
LowerChar(c) ==
    CASE c = "F" -> "f" [] c = "O" -> "o" [] c = "R" -> "r" [] c = "G" -> "g"
      [] c = "E" -> "e" [] c = "S" -> "s" [] OTHER -> c

\* str.lower()
Lower(s) == [i \in 1..Len(s) |-> LowerChar(s[i])]

ForgeToken == <<"f", "o", "r", "g", "e">>

\* glob "fabric-loader*-<id>" matches name
FabricGlob(name, id) ==
    LET head == SubSeq(FabricLoaderPrefix, 1, Len(FabricLoaderPrefix) - 1)
        tail == <<Dash>> \o id
    IN /\ Len(name) >= Len(head) + Len(tail)
       /\ StartsWith(name, head)
       /\ EndsWith(name, tail)

\* glob "*<id>*forge*" matches name
ForgeGlob(name, id) ==
    \E i \in 0..(Len(name) - Len(id)) :
        /\ SubSeq(name, i + 1, i + Len(id)) = id
        /\ Contains(SubSeq(name, i + Len(id) + 1, Len(name)), ForgeToken)

\* check_and_install_minecraft, the computation of is_installed
IsInstalled(version_data, d) ==
    LET id == version_data.id
    IN IF version_data.type = "fabric"
       THEN id \in d.jars /\ \E name \in d.versions : FabricGlob(name, id)
       ELSE IF version_data.type = "forge"
       THEN id \in d.jars /\ \E name \in d.versions : ForgeGlob(name, id)
       ELSE id \in d.jars

\* ------------------------------------------------ Launch identity resolver
\* the installed ids the Fabric search of launch_minecraft accepts
FabricMatches(installed, base_vanilla_id) ==
    {v \in installed : StartsWith(v, FabricLoaderPrefix) /\ EndsWith(v, base_vanilla_id)}

\* a Forge search that does not look for the base id
ForgeMatchesAnyBase(installed, base_vanilla_id) ==
    {v \in installed : Contains(Lower(v), ForgeToken)}

\* the installed ids the Forge search of launch_minecraft accepts
ForgeMatches(installed, base_vanilla_id) ==
    {v \in installed : Contains(v, base_vanilla_id) /\ Contains(Lower(v), ForgeToken)}

\* MinecraftLauncherThread.__init__
LauncherThreadInit(minecraft_dir, version, username, ram, java_path) ==
    [ minecraft_directory |-> minecraft_dir, version |-> version, username |-> username,
      ram |-> ram, java_path |-> java_path ]

\* launch_minecraft: what it does for the current combo entry.  Each outcome
\* is either a critical message box (followed by hide_loading once it is
\* closed) or a started launch thread.  The overlay searches break at the
\* first match of the listing, whose order is that of the directory
\* enumeration: any match can be the first.
LaunchOutcomes(u, a, f) ==
    LET Critical(text) == [modal |-> <<Modal("launch_problem", text, NoData)>>,
                           thread |-> <<>>]
        Start(id) == [modal |-> <<>>,
                      thread |-> <<LauncherThreadInit(a.minecraft_directory, id, a.username,
                                                      a.ram_allocation, a.java_path)>>]
        installed == f[a.minecraft_directory].versions
    IN IF u.current_index < 0 THEN {Critical("No version selected.")}
       ELSE LET version_data == u.combo[u.current_index + 1].data
            IN IF version_data.type = "fabric"
               THEN {Critical("Error finding installed Fabric version")}
                    \cup IF FabricMatches(installed, version_data.id) = {}
                         THEN {Critical("Could not find installed Fabric")}
                         ELSE {Start(v) : v \in FabricMatches(installed, version_data.id)}
               ELSE IF version_data.type = "forge"
               THEN {Critical("Error finding installed Forge version")}
                    \cup IF ForgeMatches(installed, version_data.id) = {}
                         THEN {Critical("Could not find installed Forge")}
                         ELSE {Start(v) : v \in ForgeMatches(installed, version_data.id)}
               ELSE IF Falsy(version_data.id)
               THEN {Critical("Could not determine version to launch.")}
               ELSE {Start(version_data.id)}

\* launch workers that are running or whose signal waits to be handled
PendingLaunches ==
    Len(launch_threads) + Cardinality({i \in 1..Len(signals) : signals[i].sig = "launch"})

\* launch_minecraft, called with the widgets as u and the hide timers as t
launch_minecraft(u, t) ==
    \E o \in LaunchOutcomes(u, app, fs) :
        /\ Len(modals) + Len(o.modal) <= MaxModals
        /\ PendingLaunches + Len(o.thread) <= MaxLaunches
        /\ ui' = u
        /\ hide_timers' = t
        /\ modals' = modals \o o.modal
        /\ launch_threads' = launch_threads \o o.thread

\* install_minecraft(version_data), called with the widgets as u and the open
\* dialogs as m
install_minecraft(u, m, version_data) ==
    IF Falsy(version_data.id)
    THEN /\ Len(m) < MaxModals
         /\ ui' = u
         /\ modals' = Append(m, Modal("warning", "Version information incomplete!", NoData))
         /\ UNCHANGED <<install_thread, calls, installs_in_flight>>
    ELSE /\ installs_in_flight < MaxInstalls
         /\ ui' = DisablePlay(u)
         /\ install_thread' = InstallThreadInit(app.minecraft_directory, version_data.id,
                                                version_data.type, version_data.forge_version)
         /\ calls' = <<>>
         /\ installs_in_flight' = installs_in_flight + 1
         /\ modals' = m

\* the play button is clicked: play_minecraft, up to the point where it
\* returns or check_and_install_minecraft opens its question box
play_minecraft ==
    /\ modals = <<>>
    /\ ui.play_visible /\ ui.play_enabled
    /\ IF ui.current_index < 0 \/ Falsy(app.username)
       THEN /\ modals' = Append(modals, Modal("warning", "Please select a version / enter your username!", NoData))
            /\ UNCHANGED <<ui, fs, settings_file, hide_timers, launch_threads>>
       ELSE LET version_data == ui.combo[ui.current_index + 1].data
            IN /\ fs' = SaveFs(fs, app)
               /\ settings_file' = SaveFile(fs, settings_file, app)
               /\ IF IsInstalled(version_data, fs[app.minecraft_directory])
                  THEN launch_minecraft(show_loading(ui, TRUE),
                                        show_loading_timers(hide_timers, TRUE))
                  ELSE /\ modals' = Append(modals, Modal("question", "Do you want to install it now?",
                                                         version_data))
                       /\ UNCHANGED <<ui, hide_timers, launch_threads>>
    /\ UNCHANGED <<install_thread, calls, version_threads, signals, app, retry_timers,
                   installs_in_flight,
                   processes, load_history>>

\* an answer No that shows the loading frame as the answer Yes does
AnswerQuestionHidesPlay ==
    /\ modals # <<>>
    /\ modals[Len(modals)].kind = "question"
    /\ \/ /\ install_minecraft(show_loading(ui, FALSE), SubSeq(modals, 1, Len(modals) - 1),
                               modals[Len(modals)].data)
          /\ hide_timers' = show_loading_timers(hide_timers, FALSE)
       \/ /\ modals' = SubSeq(modals, 1, Len(modals) - 1)
          /\ ui' = show_loading(ui, FALSE)
          /\ UNCHANGED <<install_thread, calls, hide_timers, installs_in_flight>>
    /\ UNCHANGED <<version_threads, launch_threads, signals, fs, settings_file, app,
                   retry_timers,
                   processes, load_history>>

\* the question box of check_and_install_minecraft is answered
AnswerQuestion ==
    /\ modals # <<>>
    /\ modals[Len(modals)].kind = "question"
    /\ \/ /\ install_minecraft(show_loading(ui, FALSE), SubSeq(modals, 1, Len(modals) - 1),
                               modals[Len(modals)].data)
          /\ hide_timers' = show_loading_timers(hide_timers, FALSE)
       \/ /\ modals' = SubSeq(modals, 1, Len(modals) - 1)
          /\ UNCHANGED <<install_thread, calls, ui, hide_timers, installs_in_flight>>
    /\ UNCHANGED <<version_threads, launch_threads, signals, fs, settings_file, app,
                   retry_timers,
                   processes, load_history>>

\* the slot of progress_signal
update_progress ==
    /\ signals # <<>>
    /\ Head(signals).sig = "progress"
    /\ signals' = Tail(signals)
    /\ hide_timers' =
          IF ui.loading_visible /\ ui.status_label = "DOWNLOADING"
             /\ Head(signals).percent >= 100
          THEN Bump(hide_timers, MaxHideTimers)
          ELSE hide_timers
    /\ UNCHANGED <<install_thread, calls, version_threads, launch_threads, fs, settings_file,
                   app, ui, retry_timers, modals, installs_in_flight,
                   processes, load_history>>

\* installation_complete: self.play_button.setEnabled(True)
EnablePlay(u) == [u EXCEPT !.play_enabled = TRUE]

\* the slot of complete_signal
installation_complete ==
    /\ signals # <<>>
    /\ Head(signals).sig = "complete"
    /\ signals' = Tail(signals)
    /\ installs_in_flight' = installs_in_flight - 1
    /\ LET u == hide_loading(EnablePlay(ui))
       IN IF Head(signals).success
          THEN launch_minecraft(show_loading(u, TRUE), show_loading_timers(hide_timers, TRUE))
          ELSE /\ Len(modals) < MaxModals
               /\ ui' = u
               /\ modals' = Append(modals, Modal("install_error", "Installation Error", NoData))
               /\ UNCHANGED <<hide_timers, launch_threads>>
    /\ UNCHANGED <<install_thread, calls, version_threads, fs, settings_file, app,
                   retry_timers,
                   processes, load_history>>

\* a QTimer.singleShot(..., self.hide_loading) fires
TimerHideLoading ==
    /\ hide_timers > 0
    /\ hide_timers' = hide_timers - 1
    /\ ui' = hide_loading(ui)
    /\ UNCHANGED <<install_thread, calls, version_threads, launch_threads, signals, fs,
                   settings_file, app, retry_timers, modals, installs_in_flight,
                   processes, load_history>>

\* the message boxes with an OK button only
MessageBoxKinds == {"warning", "install_error", "launch_error", "launch_problem"}

\* a message box is closed; launch_minecraft calls hide_loading after its own
DismissDialog ==
    /\ modals # <<>>
    /\ modals[Len(modals)].kind \in MessageBoxKinds
    /\ modals' = SubSeq(modals, 1, Len(modals) - 1)
    /\ ui' = IF modals[Len(modals)].kind = "launch_problem" THEN hide_loading(ui) ELSE ui
    /\ UNCHANGED <<install_thread, calls, version_threads, launch_threads, signals, fs,
                   settings_file, app, hide_timers, retry_timers, installs_in_flight,
                   processes, load_history>>

\* ---------------------------------------------- MinecraftLauncherThread
LaunchSignal(success, message) ==
    [sig |-> "launch", success |-> success, message |-> message]

\* what happens between get_minecraft_command and the liveness check
LaunchEvents == {"command_raises", "popen_raises", "running", "exit_0", "exit_1"}

\* only a process that is still running counts as launched
LaunchedWhileRunning == {"running"}

\* the events after which run() reports the launch as successful
LaunchedEvents == {"running", "exit_0"}

\* the signal of a run() that reports every failure with one text
LaunchResultOneFailure(event) ==
    IF event \in LaunchedEvents
    THEN LaunchSignal(TRUE, Msg("Minecraft launched successfully.", <<>>, <<>>, NoExc))
    ELSE LaunchSignal(FALSE,
            Msg("Error launching Minecraft: {err}", <<>>, <<>>,
                Exc("Failed to execute Minecraft", <<>>)))

\* the signal run() emits
LaunchResult(event) ==
    IF event \in LaunchedEvents
    THEN LaunchSignal(TRUE, Msg("Minecraft launched successfully.", <<>>, <<>>, NoExc))
    ELSE LaunchSignal(FALSE,
            Msg("Error launching Minecraft: {err}", <<>>, <<>>,
                IF event = "command_raises" THEN Exc("command error", <<>>)
                ELSE IF event = "popen_raises"
                THEN Exc("Failed to execute Minecraft: {popen error}", <<>>)
                ELSE Exc("Failed to execute Minecraft: Process exited with code {0}", <<"1">>)))

\* the prefix of the quick-play arguments
QuickPlay == <<"-", "-", "q", "u", "i", "c", "k", "P", "l", "a", "y">>

QuickPlayPath == QuickPlay \o <<"P", "a", "t", "h">>

\* arg == "--quickPlayPath" or arg.startswith("--quickPlay")
IsQuickPlay(arg) == arg = QuickPlayPath \/ StartsWith(arg, QuickPlay)

\* the loop of run() from the argument list command on, skip_next as given
RECURSIVE FilterFrom(_, _)
FilterFrom(command, skip_next) ==
    IF command = <<>> THEN <<>>
    ELSE IF skip_next THEN FilterFrom(Tail(command), FALSE)
    ELSE IF IsQuickPlay(Head(command)) THEN FilterFrom(Tail(command), TRUE)
    ELSE <<Head(command)>> \o FilterFrom(Tail(command), FALSE)

\* run(): filtered_command
filtered_command(command) == FilterFrom(command, FALSE)

\* a command as get_minecraft_command builds it from the version's arguments
Java == <<"j">>

QuickPlayValue == <<"$", "q">>

VersionFlag == <<"-", "-", "v">>

LibCommand == <<Java, QuickPlayPath, QuickPlayValue, VersionFlag, V120>>

LibCommands == {LibCommand}

\* what a run leaves in processes: the command of the library, unless
\* get_minecraft_command raised the command given to subprocess.Popen, and
\* what happened to the process up to the liveness check
Process(command, event) ==
    [ raw |-> command,
      started |-> IF event = "command_raises" THEN <<>> ELSE <<filtered_command(command)>>,
      event |-> event ]

\* MinecraftLauncherThread.run, with get_minecraft_command returning one of
\* commands and one of events happening
LauncherThreadRunWith(events, commands) ==
    /\ launch_threads # <<>>
    /\ \E i \in 1..Len(launch_threads), event \in events, command \in commands :
          /\ launch_threads' = SubSeq(launch_threads, 1, i - 1)
                                   \o SubSeq(launch_threads, i + 1, Len(launch_threads))
          /\ Emit(LaunchResult(event))
          /\ processes' = Append(processes, Process(command, event))
    /\ UNCHANGED <<install_thread, calls, version_threads, fs, settings_file, app, ui,
                   hide_timers, retry_timers, modals, installs_in_flight,
                   load_history>>

\* MinecraftLauncherThread.run, with one of events happening
LauncherThreadRun(events) == LauncherThreadRunWith(events, LibCommands)

\* the slot of launch_signal
launch_complete ==
    /\ signals # <<>>
    /\ Head(signals).sig = "launch"
    /\ signals' = Tail(signals)
    /\ processes' = Tail(processes)
    /\ IF Head(signals).success
       THEN UNCHANGED modals
       ELSE /\ Len(modals) < MaxModals
            /\ modals' = Append(modals, Modal("launch_error", "Launch Error", NoData))
    /\ UNCHANGED <<install_thread, calls, version_threads, launch_threads, fs, settings_file,
                   app, ui, hide_timers, retry_timers, installs_in_flight,
                   load_history>>

\* the user picks another entry of version_combo: currentIndexChanged fires
\* update_selected_version, which saves the settings
SelectEntry ==
    /\ modals = <<>>
    /\ \E i \in 0..(Len(ui.combo) - 1) :
          /\ i # ui.current_index
          /\ ui' = [ui EXCEPT !.current_index = i]
          /\ app' = update_selected_version(app, ui.combo, i)
          /\ fs' = SaveFs(fs, app')
          /\ settings_file' = SaveFile(fs, settings_file, app')
          /\ load_history' = Selected(load_history, ui.combo[i + 1].text)
    /\ UNCHANGED <<install_thread, calls, version_threads, launch_threads, signals,
                   hide_timers, retry_timers, modals, installs_in_flight, processes>>

\* open_settings: SettingsDialog(self).exec_()
open_settings ==
    /\ modals = <<>>
    /\ modals' = Append(modals, Modal("settings", "Settings", NoData))
    /\ UNCHANGED <<install_thread, calls, version_threads, launch_threads, signals, fs,
                   settings_file, app, ui, hide_timers, retry_timers, installs_in_flight,
                   processes, load_history>>

\* catalog loads that are running, scheduled or waiting to be handled
PendingLoads ==
    version_threads + retry_timers
        + Cardinality({i \in 1..Len(signals) : signals[i].sig = "version"})

\* SettingsDialog.save_settings with the dialog's widgets holding one of entered
SettingsSave(entered) ==
    /\ modals # <<>>
    /\ modals[Len(modals)].kind = "settings"
    /\ PendingLoads < MaxFetches
    /\ \E e \in entered :
          /\ app' = [app EXCEPT !.minecraft_directory = e.directory,
                                !.username = e.username,
                                !.java_path = e.java_path,
                                !.ram_allocation = e.ram_spin * 1024,
                                !.show_fabric = e.fabric,
                                !.show_forge = e.forge,
                                !.show_snapshots = e.snapshot]
          /\ fs' = SaveFs(fs, app')
          /\ settings_file' = SaveFile(fs, settings_file, app')
    /\ version_threads' = load_versions(version_threads)
    /\ modals' = SubSeq(modals, 1, Len(modals) - 1)
    /\ load_history' = StartLoad(load_history, CurrentText(ui))
    /\ UNCHANGED <<install_thread, calls, launch_threads, signals, ui, hide_timers,
                   retry_timers, installs_in_flight, processes>>

\* the Cancel button of the settings dialog
SettingsCancel ==
    /\ modals # <<>>
    /\ modals[Len(modals)].kind = "settings"
    /\ modals' = SubSeq(modals, 1, Len(modals) - 1)
    /\ UNCHANGED <<install_thread, calls, version_threads, launch_threads, signals, fs,
                   settings_file, app, ui, hide_timers, retry_timers, installs_in_flight,
                   processes, load_history>>

\* ------------------------------------------------------------ construction
Player == <<"P">>

\* the dictionary load_settings starts from.  config.DEFAULT_SETTINGS has no
\* entry for the three display flags; shows stands for the values they get.
Defaults(shows) ==
    [ minecraft_directory |-> DEFAULT_MINECRAFT_DIR,
      username |-> <<>>,
      last_used_version |-> None,
      ram_allocation |-> DEFAULT_RAM_ALLOCATION,
      java_path |-> <<>>,
      show_fabric |-> shows.fabric,
      show_forge |-> shows.forge,
      show_snapshots |-> shows.snapshot ]

\* content of SETTINGS_FILE that json.load rejects
Unparsable == [unparsable |-> TRUE]

\* json.load(f) returns
Parses(file) == "unparsable" \notin DOMAIN file[1]

\* load_settings from the try on: the defaults, updated with the keys of the
\* document unless the file is missing or json.load raises
load_settings(file, shows) ==
    IF file = <<>> THEN Defaults(shows)
    ELSE IF ~Parses(file) THEN Defaults(shows)
    ELSE [k \in DOMAIN Defaults(shows) \cup DOMAIN file[1] |->
            IF k \in DOMAIN file[1] THEN file[1][k] ELSE Defaults(shows)[k]]

\* config.DEFAULT_SETTINGS
DEFAULT_SETTINGS ==
    [ minecraft_directory |-> DEFAULT_MINECRAFT_DIR,
      username |-> Player,
      last_used_version |-> None,
      ram_allocation |-> 2048,
      java_path |-> <<>> ]

\* the keys load_settings subscripts DEFAULT_SETTINGS with, in their order
DefaultsRead ==
    <<"ram_allocation", "java_path", "show_fabric", "show_forge", "show_snapshots">>

\* load_settings as a whole, DEFAULT_SETTINGS being defaults: the dictionary
\* literal subscripts defaults before the try is entered, and a key that
\* defaults does not hold raises KeyError to the caller
LoadSettings(file, defaults) ==
    LET missing == {i \in 1..Len(DefaultsRead) : DefaultsRead[i] \notin DOMAIN defaults}
    IN IF missing # {}
       THEN [ raised |-> TRUE,
              key |-> DefaultsRead[CHOOSE i \in missing : \A j \in missing : i <= j] ]
       ELSE [ raised |-> FALSE,
              settings |-> load_settings(file, [ fabric |-> defaults.show_fabric,
                                                 forge |-> defaults.show_forge,
                                                 snapshot |-> defaults.show_snapshots ]) ]

\* NovaLauncher.__init__: the attributes
AppInit(settings) ==
    [ minecraft_directory |-> settings.minecraft_directory,
      username |-> IF Falsy(settings.username) THEN Player ELSE settings.username,
      selected_version |-> settings.last_used_version,
      ram_allocation |-> settings.ram_allocation,
      java_path |-> settings.java_path,
      show_fabric |-> settings.show_fabric,
      show_forge |-> settings.show_forge,
      show_snapshots |-> settings.show_snapshots,
      settings |-> settings,
      version_retries |-> 0 ]

\* setup_ui: the widgets
UiInit ==
    [ play_enabled |-> TRUE, play_visible |-> TRUE, loading_visible |-> FALSE,
      status_label |-> "", combo |-> <<>>, current_index |-> -1 ]

EmptyDir == [exists |-> FALSE, versions |-> {}, jars |-> {}]

\* the state after NovaLauncher() has been constructed, for a settings file
\* among files and display-flag defaults among showss: the settings are
\* loaded, the first catalog load is started and the game directory created
InitFrom(files, showss) ==
    \E file \in files, shows \in showss :
        /\ settings_file = file
        /\ app = AppInit(load_settings(file, shows))
        /\ \/ fs = MakeDirs([d \in Dirs |-> EmptyDir], app.minecraft_directory)
           \/ fs = [d \in Dirs |-> EmptyDir]
        /\ ui = UiInit
        /\ version_threads = load_versions(0)
        /\ launch_threads = <<>>
        /\ install_thread = NoInstallThread
        /\ calls = <<>>
        /\ signals = <<>>
        /\ hide_timers = 0
        /\ retry_timers = 0
        /\ modals = <<>>
        /\ installs_in_flight = 0
        /\ load_history = NoLoad
        /\ processes = <<>>

\* main() before NovaLauncher() is constructed
NotConstructed == [constructed |-> FALSE]

\* main(): NovaLauncher(), DEFAULT_SETTINGS being one of defaultss.  __init__
\* calls load_settings first; an exception of it ends the construction and
\* the program
Construct(defaultss) ==
    /\ app = NotConstructed
    /\ \E defaults \in defaultss :
          LET r == LoadSettings(settings_file, defaults)
          IN IF r.raised
             THEN /\ app' = [raised |-> "KeyError", key |-> r.key]
                  /\ UNCHANGED <<fs, version_threads>>
             ELSE /\ app' = AppInit(r.settings)
                  /\ \/ fs' = MakeDirs(fs, app'.minecraft_directory)
                     \/ fs' = fs
                  /\ version_threads' = load_versions(0)
    /\ UNCHANGED <<install_thread, calls, launch_threads, signals, settings_file, ui,
                   hide_timers, retry_timers, modals, installs_in_flight, processes,
                   load_history>>

\* --------------------------------------------------------- specifications
\* the user confirms the install of an entry whose item data is one of datas:
\* check_and_install_minecraft shows the loading frame and calls
\* install_minecraft(version_data)
InstallRequest(datas) ==
    /\ modals = <<>>
    /\ ui.play_visible /\ ui.play_enabled
    /\ \E version_data \in datas :
          install_minecraft(show_loading(ui, FALSE), modals, version_data)
    /\ hide_timers' = show_loading_timers(hide_timers, FALSE)
    /\ UNCHANGED <<version_threads, launch_threads, signals, fs, settings_file, app,
                   retry_timers,
                   processes, load_history>>

NoShows == [fabric |-> FALSE, forge |-> FALSE, snapshot |-> FALSE]

\* The install worker driven with every request the constructor accepts,
\* together with the foreground slots that consume its signals.
InitInstall == InitFrom({<<>>}, {NoShows})

NextInstall ==
    \/ InstallRequest(VersionData)
    \/ InstallThreadRun(ProgressReports)
    \/ update_progress
    \/ installation_complete
    \/ TimerHideLoading
    \/ DismissDialog

SpecInstall == InitInstall /\ [][NextInstall]_vars

\* The launcher from its construction on: the catalog is loaded, the user
\* selects entries and presses PLAY, installs and launches run.
Snap == <<"1", ".", "3", "-", "p">>

Catalog ==
    << [id |-> V120, type |-> "release", releaseTime |-> 1],
       [id |-> Snap, type |-> "snapshot", releaseTime |-> 3] >>

\* get_version_list() returns the catalog, returns nothing, or raises
FetchOutcomes == {Returns(Catalog), Returns(<<>>), Raises}

AllShows == [fabric |-> TRUE, forge |-> TRUE, snapshot |-> TRUE]

ModShows == [fabric |-> TRUE, forge |-> TRUE, snapshot |-> FALSE]

\* the progress value the installers report: complete
Reports == {[value |-> 2, max_value |-> <<2>>]}

\* the game process exits with code 1 within the second run() waits
LaunchFailures == {"exit_1"}

Init == InitFrom({<<>>}, {ModShows})

Next ==
    \/ VersionThreadRun(FetchOutcomes)
    \/ update_versions
    \/ TimerLoadVersions
    \/ SelectEntry
    \/ play_minecraft
    \/ AnswerQuestion
    \/ InstallThreadRun(Reports)
    \/ update_progress
    \/ installation_complete
    \/ TimerHideLoading
    \/ LauncherThreadRun(LaunchFailures)
    \/ launch_complete
    \/ DismissDialog

Spec == Init /\ [][Next]_vars

\* Catalog loading alone: fetches, retries, and the settings dialog, whose
\* Save starts a new load.
Entered ==
    { [directory |-> DEFAULT_MINECRAFT_DIR, username |-> Player, java_path |-> <<>>,
       ram_spin |-> 2, fabric |-> TRUE, forge |-> TRUE, snapshot |-> s] : s \in BOOLEAN }

InitCatalog == InitFrom({<<>>}, {AllShows})

NextCatalog ==
    \/ VersionThreadRun(FetchOutcomes)
    \/ update_versions
    \/ TimerLoadVersions
    \/ SelectEntry
    \/ open_settings
    \/ SettingsSave(Entered)
    \/ SettingsCancel

SpecCatalog == InitCatalog /\ [][NextCatalog]_vars

\* The projector and the selection restoration under catalogs in any order,
\* stored settings and every combination of the display flags; a Save of
\* the settings dialog happens while no catalog load is pending.
Snap4 == <<"1", ".", "4", "-", "p">>

Beta == <<"b", "1">>

CatalogUnsorted ==
    << [id |-> V120, type |-> "release", releaseTime |-> 1],
       [id |-> Snap, type |-> "snapshot", releaseTime |-> 3],
       [id |-> Beta, type |-> "old_beta", releaseTime |-> 0],
       [id |-> V1201, type |-> "release", releaseTime |-> 2],
       [id |-> Snap4, type |-> "snapshot", releaseTime |-> 4] >>

ProjectOutcomes == {Returns(Catalog), Returns(CatalogUnsorted), Returns(<<>>)}

\* a settings document whose last_used_version is the directory name of a
\* Fabric install, the "full" id the restoration loop of update_versions
\* provides for
FabricDoc ==
    [ minecraft_directory |-> DEFAULT_MINECRAFT_DIR,
      username |-> Player,
      last_used_version |-> FabricIdFor(V1201),
      ram_allocation |-> DEFAULT_RAM_ALLOCATION,
      java_path |-> <<>>,
      show_fabric |-> TRUE,
      show_forge |-> TRUE,
      show_snapshots |-> TRUE ]

StoredFiles == {<<>>, <<FabricDoc>>}

FabricOnly == [fabric |-> TRUE, forge |-> FALSE, snapshot |-> FALSE]

ForgeOnly == [fabric |-> FALSE, forge |-> TRUE, snapshot |-> FALSE]

SnapshotsOnly == [fabric |-> FALSE, forge |-> FALSE, snapshot |-> TRUE]

\* the states of the three check boxes the dialog is saved with
ProjectShows == {AllShows, FabricOnly, ForgeOnly, SnapshotsOnly}

ProjectEntered ==
    { [directory |-> DEFAULT_MINECRAFT_DIR, username |-> Player, java_path |-> <<>>,
       ram_spin |-> 2, fabric |-> f.fabric, forge |-> f.forge, snapshot |-> f.snapshot] :
         f \in ProjectShows }

\* Save of the settings dialog while no load is running, scheduled or unhandled
QuietSave(entered) ==
    /\ PendingLoads = 0
    /\ SettingsSave(entered)

InitProject ==
    /\ InitFrom(StoredFiles, {AllShows})
    /\ settings_file # <<>> => fs[DEFAULT_MINECRAFT_DIR].exists

NextProject ==
    \/ VersionThreadRun(ProjectOutcomes)
    \/ update_versions
    \/ TimerLoadVersions
    \/ SelectEntry
    \/ open_settings
    \/ QuietSave(ProjectEntered)
    \/ SettingsCancel

SpecProject == InitProject /\ [][NextProject]_vars

\* The installation test of check_and_install_minecraft under directory
\* contents as installers of any origin leave them: the launcher starts on a
\* game directory that holds some of these names, loads the catalog, and the
\* user picks entries and presses PLAY, declining every install.
ForgeDirUpper == <<"1", ".", "2", "-", "F", "o", "r", "g", "e", "4">>

ForgeDirLeading == <<"f", "o", "r", "g", "e", "-", "1", ".", "2">>

ForgeDirOtherBase == <<"1", ".", "3", "-", "f", "o", "r", "g", "e", "-", "4">>

\* fabric-loader9-1.2: no '-' between the loader prefix and the loader version
FabricDirJoined ==
    SubSeq(FabricLoaderPrefix, 1, Len(FabricLoaderPrefix) - 1) \o <<"9", Dash>> \o V120

\* names under versions/ beside the vanilla directory, none or one at a time
OverlayDirNames ==
    {ForgeIdFor(ForgeBuild), ForgeDirUpper, ForgeDirLeading, FabricIdFor(V120), FabricDirJoined}

\* the vanilla version 1.2 absent, or installed with its jar
BaseContents == { [versions |-> {}, jars |-> {}], [versions |-> {V120}, jars |-> {V120}] }

\* the Forge directory of 1.2.1, of which 1.2 is a substring
ForgeDirLongerBase == ForgeIdFor(<<"1", ".", "2", ".", "1", "-", "4">>)

\* the Fabric directory of 1.1.2, of which 1.2 is a suffix, beside that of 1.2
FabricDirsTwoBases == {FabricIdFor(V120), FabricIdFor(<<"1", ".", "1", ".", "2">>)}

OtherBaseContents == { {ForgeDirLongerBase}, FabricDirsTwoBases }

\* two Forge directories for 1.2 beside one for another version
SeveralForgeDirs == {ForgeIdFor(ForgeBuild), ForgeDirUpper, ForgeDirOtherBase}

OneOverlayDir == { {n} : n \in OverlayDirNames }

OverlayContents == { {}, SeveralForgeDirs } \cup OneOverlayDir \cup OtherBaseContents

\* contents of the game directory: the vanilla version 1.2 installed or not,
\* alone or beside one overlay directory
DetectContents ==
    { [exists |-> TRUE, versions |-> base.versions \cup over, jars |-> base.jars] :
        base \in BaseContents, over \in OverlayContents }

DetectOutcomes == {Returns(Catalog)}

\* the question box of check_and_install_minecraft is answered No
DeclineInstall ==
    /\ AnswerQuestion
    /\ installs_in_flight' = installs_in_flight

InitDetect ==
    \E content \in DetectContents :
        /\ settings_file = <<>>
        /\ app = AppInit(load_settings(<<>>, ModShows))
        /\ fs = [d \in Dirs |-> IF d = DEFAULT_MINECRAFT_DIR THEN content ELSE EmptyDir]
        /\ ui = UiInit
        /\ version_threads = load_versions(0)
        /\ launch_threads = <<>>
        /\ install_thread = NoInstallThread
        /\ calls = <<>>
        /\ signals = <<>>
        /\ hide_timers = 0
        /\ retry_timers = 0
        /\ modals = <<>>
        /\ installs_in_flight = 0
        /\ load_history = NoLoad
        /\ processes = <<>>

NextDetect ==
    \/ VersionThreadRun(DetectOutcomes)
    \/ update_versions
    \/ SelectEntry
    \/ play_minecraft
    \/ DeclineInstall
    \/ LauncherThreadRun(LaunchFailures)
    \/ launch_complete
    \/ TimerHideLoading
    \/ DismissDialog

SpecDetect == InitDetect /\ [][NextDetect]_vars

\* The launch worker run on every argument list of up to MaxCommand tokens
\* that get_minecraft_command may return, in a launcher whose game directory
\* holds the vanilla version 1.2.
QuickPlaySingle == QuickPlay \o <<"S">>

\* an argument that the prefix starts with, not the other way round
QuickFlag == <<"-", "-", "q", "u", "i", "c", "k">>

Value == <<"v">>

Tokens == {QuickPlayPath, QuickPlaySingle, QuickFlag, Value}

RawCommands == UNION {[1..n -> Tokens] : n \in 0..MaxCommand}

\* get_minecraft_command raises, or the process starts and keeps running
FilterEvents == {"command_raises", "running"}

InitFilter ==
    /\ InitDetect
    /\ fs[DEFAULT_MINECRAFT_DIR].versions = {V120}
    /\ fs[DEFAULT_MINECRAFT_DIR].jars = {V120}

NextFilter ==
    \/ VersionThreadRun(DetectOutcomes)
    \/ update_versions
    \/ SelectEntry
    \/ play_minecraft
    \/ DeclineInstall
    \/ LauncherThreadRunWith(FilterEvents, RawCommands)
    \/ launch_complete
    \/ TimerHideLoading
    \/ DismissDialog

SpecFilter == InitFilter /\ [][NextFilter]_vars

\* --------------------------------------------------------------------------
\* The launch worker with every outcome of run(): PLAY on an installed entry
\* starts a worker, and the worker ends in any of LaunchEvents.
NextLaunch ==
    \/ VersionThreadRun(DetectOutcomes)
    \/ update_versions
    \/ SelectEntry
    \/ play_minecraft
    \/ DeclineInstall
    \/ LauncherThreadRun(LaunchEvents)
    \/ launch_complete
    \/ TimerHideLoading
    \/ DismissDialog

SpecLaunch == InitDetect /\ [][NextLaunch]_vars

\* --------------------------------------------------------------------------
\* The construction of the launcher for every state of the settings document:
\* missing, unparsable, or holding any subset of the keys.
SettingsKeys ==
    {"minecraft_directory", "username", "last_used_version", "ram_allocation",
     "java_path", "show_fabric", "show_forge", "show_snapshots"}

\* a document that holds every key, with values other than the defaults
StoredDoc ==
    [ minecraft_directory |-> CustomDir,
      username |-> <<"N">>,
      last_used_version |-> V120,
      ram_allocation |-> 4096,
      java_path |-> <<"j">>,
      show_fabric |-> TRUE,
      show_forge |-> TRUE,
      show_snapshots |-> TRUE ]

\* StoredDoc without the keys outside keys
Partial(keys) == [k \in keys |-> StoredDoc[k]]

PartialFiles == {<<Partial(keys)>> : keys \in SUBSET SettingsKeys}

OtherFiles == {<<>>, <<Unparsable>>}

SettingsFiles == OtherFiles \cup PartialFiles

\* DEFAULT_SETTINGS as config.py defines it
ConfiguredDefaults == {DEFAULT_SETTINGS}

\* main() is entered with the settings file being one of files
InitMain(files) ==
    /\ settings_file \in files
    /\ app = NotConstructed
    /\ fs = [d \in Dirs |-> IF d = DEFAULT_MINECRAFT_DIR /\ settings_file # <<>>
                             THEN [EmptyDir EXCEPT !.exists = TRUE] ELSE EmptyDir]
    /\ ui = UiInit
    /\ version_threads = 0
    /\ launch_threads = <<>>
    /\ install_thread = NoInstallThread
    /\ calls = <<>>
    /\ signals = <<>>
    /\ hide_timers = 0
    /\ retry_timers = 0
    /\ modals = <<>>
    /\ installs_in_flight = 0
    /\ load_history = NoLoad
    /\ processes = <<>>

InitSettings == InitMain(SettingsFiles)

NextSettings == Construct(ConfiguredDefaults)

SpecSettings == InitSettings /\ [][NextSettings]_vars

\* --------------------------------------------------------------------------
\* The settings from the document to the launcher and back: the launcher is
\* constructed from a document, and the settings dialog saves a directory and
\* a RAM size.  DEFAULT_SETTINGS is taken to hold the three display flags, so
\* that the construction gets past load_settings.
ShowDefaults == [show_fabric |-> FALSE, show_forge |-> FALSE, show_snapshots |-> FALSE]

CompletedDefaults ==
    {[k \in DOMAIN DEFAULT_SETTINGS \cup DOMAIN ShowDefaults |->
         IF k \in DOMAIN DEFAULT_SETTINGS THEN DEFAULT_SETTINGS[k] ELSE ShowDefaults[k]]}

\* values of ram_allocation a document may hold
StoredRams == {4096, 1500, 0}

RamFiles == {<<[ram_allocation |-> r]>> : r \in StoredRams}

FullFiles == {<<StoredDoc>>}

SavedFiles == OtherFiles \cup RamFiles \cup FullFiles

OneReleaseOutcomes == {Returns(<<Catalog[1]>>)}

\* what the widgets of the settings dialog may hold at Save
SavedEntered ==
    { [directory |-> d, username |-> Player, java_path |-> <<>>,
       ram_spin |-> r, fabric |-> FALSE, forge |-> FALSE, snapshot |-> FALSE] :
         d \in Dirs, r \in 1..2 }

Constructed == app # NotConstructed

InitSaved == InitMain(SavedFiles)

NextSaved ==
    \/ Construct(CompletedDefaults)
    \/ Constructed /\ VersionThreadRun(OneReleaseOutcomes)
    \/ Constructed /\ update_versions
    \/ Constructed /\ SelectEntry
    \/ Constructed /\ open_settings
    \/ Constructed /\ SettingsSave(SavedEntered)
    \/ Constructed /\ SettingsCancel

SpecSaved == InitSaved /\ [][NextSaved]_vars

\* --------------------------------------------------------------------------
\* The whole launcher with every outcome of installs and launches, under the
\* scheduling of the program: a started thread runs to its end, the event
\* loop delivers every queued signal and fires every timer, and a message
\* box is closed.  What the user does with the list, the play button and the
\* question box is left open.
\* the question box is answered while a launch worker remains for the launch
\* that follows the install
AnswerWithLaunchLeft ==
    /\ PendingLaunches + installs_in_flight < MaxLaunches
    /\ AnswerQuestion

NextRetry ==
    \/ VersionThreadRun(OneReleaseOutcomes)
    \/ update_versions
    \/ SelectEntry
    \/ play_minecraft
    \/ AnswerWithLaunchLeft
    \/ InstallThreadRun(Reports)
    \/ update_progress
    \/ installation_complete
    \/ TimerHideLoading
    \/ LauncherThreadRun(LaunchEvents)
    \/ launch_complete
    \/ DismissDialog

FairRetry ==
    /\ WF_vars(VersionThreadRun(OneReleaseOutcomes))
    /\ WF_vars(update_versions)
    /\ WF_vars(InstallThreadRun(Reports))
    /\ WF_vars(update_progress)
    /\ WF_vars(installation_complete)
    /\ WF_vars(TimerHideLoading)
    /\ WF_vars(LauncherThreadRun(LaunchEvents))
    /\ WF_vars(launch_complete)
    /\ WF_vars(DismissDialog)

SpecRetry == Init /\ [][NextRetry]_vars /\ FairRetry

\* --------------------------------------------------------------------------
\* The selection from one session to the next: the launcher is constructed,
\* fills the list, the user selects entries, the window is closed and the
\* launcher is started again on the settings document the session left.
\* DEFAULT_SETTINGS is taken to hold the three display flags, with the Fabric
\* and Forge entries shown.
ModDefaults == [show_fabric |-> TRUE, show_forge |-> TRUE, show_snapshots |-> FALSE]

SessionDefaults ==
    {[k \in DOMAIN DEFAULT_SETTINGS \cup DOMAIN ModDefaults |->
         IF k \in DOMAIN DEFAULT_SETTINGS THEN DEFAULT_SETTINGS[k] ELSE ModDefaults[k]]}

\* a document left by another version of the launcher: every key of the
\* settings and a key the launcher does not know
ExtendedDoc ==
    [k \in SettingsKeys \cup {"theme"} |->
        IF k \in SettingsKeys THEN StoredDoc[k] ELSE <<"d">>]

SessionFiles == {<<>>, <<ExtendedDoc>>}

\* the catalog with one release or with two
SessionOutcomes == {Returns(Catalog), Returns(CatalogUnsorted)}

\* the main window is closed: app.exec_() returns and the process exits with
\* its threads and timers; the documents on disk stay.  load_history keeps
\* the display name of the entry that was current and the last projection.
Quit ==
    /\ Constructed
    /\ modals = <<>>
    /\ app' = NotConstructed
    /\ ui' = UiInit
    /\ version_threads' = 0
    /\ launch_threads' = <<>>
    /\ install_thread' = NoInstallThread
    /\ calls' = <<>>
    /\ signals' = <<>>
    /\ hide_timers' = 0
    /\ retry_timers' = 0
    /\ installs_in_flight' = 0
    /\ processes' = <<>>
    /\ load_history' = StartLoad(load_history, load_history.selection)
    /\ UNCHANGED <<fs, settings_file, modals>>

InitSession == InitMain(SessionFiles)

NextSession ==
    \/ Construct(SessionDefaults)
    \/ Constructed /\ VersionThreadRun(SessionOutcomes)
    \/ Constructed /\ update_versions
    \/ Constructed /\ SelectEntry
    \/ Quit

SpecSession == InitSession /\ [][NextSession]_vars

\* ------------------------------------------------------------------ claims
\* the installers of the overlays: Fabric (OverlayA) and Forge (OverlayB)
OverlayInstallers == {"install_fabric", "install_forge_version"}

BaseInstaller == "install_minecraft_version"

\* the log entries at which a function of fns was entered
EnteredAt(fns) == {i \in DOMAIN calls : calls[i].fn \in fns /\ calls[i].ev = "call"}

\* the base installer, entered for the request's id, has returned normally
\* before position i of the log
BaseReturnedBefore(i) ==
    \E j \in 1..(i - 1) : calls[j] = Returned(BaseInstaller, install_thread.version)

\* C1: within one install run the first library call is the base installer,
\* entered for the id of the request; an overlay installer is entered only
\* after the base installer has returned normally; and for a vanilla request
\* no overlay installer is entered at all.
C1_BaseBeforeOverlay ==
    /\ calls # <<>> => calls[1] = Call(BaseInstaller, install_thread.version)
    /\ \A i \in EnteredAt(OverlayInstallers) : BaseReturnedBefore(i)
    /\ install_thread.version_type = "vanilla" => EnteredAt(OverlayInstallers) = {}

\* C1 witness: a Forge run has ended after entering its overlay installer, the
\* base installer having been entered once
C1_OverlayEntered ==
    /\ install_thread.version_type = "forge"
    /\ install_thread.pc = "done"
    /\ EnteredAt({"install_forge_version"}) # {}
    /\ EnteredAt({BaseInstaller}) = {1}

\* the signal a step emits, if it emits one: <<signal>> or <<>>
Emitted ==
    IF Len(signals') = Len(signals) + 1 /\ SubSeq(signals', 1, Len(signals)) = signals
    THEN <<signals'[Len(signals')]>>
    ELSE <<>>

EmittedKind(kind) == Emitted # <<>> /\ Emitted[1].sig = kind

\* no install thread, or one whose run() is over
IdlePcs == {"none", "done"}

\* a step ends a run of the install, fetch or launch worker
InstallRunEnds == install_thread.pc \notin IdlePcs /\ install_thread'.pc = "done"

FetchRunEnds == version_threads' < version_threads

LaunchRunEnds == Len(launch_threads') < Len(launch_threads)

\* C2: a step ends a run of the install, fetch or launch worker exactly when
\* it emits that worker's terminal signal (complete_signal, version_signal,
\* launch_signal), whether the library calls of the run succeeded or raised;
\* and once an install run has emitted complete_signal, no progress_signal of
\* that run follows.
C2_OneTerminalSignalPerRun ==
    [][ /\ InstallRunEnds <=> EmittedKind("complete")
        /\ FetchRunEnds <=> EmittedKind("version")
        /\ LaunchRunEnds <=> EmittedKind("launch")
        /\ install_thread.pc = "done" => ~EmittedKind("progress") ]_vars

\* C2 witness: an install run whose base installer raised has ended, its one
\* complete_signal waits in the queue, and the fetch of this session has
\* delivered its list
C2_FailedRunReported ==
    /\ install_thread.pc = "done"
    /\ calls # <<>> /\ calls[Len(calls)].ev = "raise"
    /\ Cardinality({i \in DOMAIN signals : signals[i].sig = "complete"}) = 1
    /\ version_threads = 0
    /\ ui.combo # <<>>

\* the reasons of the failed complete_signals waiting in the queue; they are
\* those of the current install run, the next one being started only by the
\* slot that consumes them
FailureReasons ==
    {signals[i].message :
        i \in {k \in DOMAIN signals : signals[k].sig = "complete" /\ ~signals[k].success}}

SuccessReported ==
    \E i \in DOMAIN signals : signals[i].sig = "complete" /\ signals[i].success

\* the base installer of the current run has returned normally / has raised
BaseReturned == \E j \in DOMAIN calls : calls[j] = Returned(BaseInstaller, install_thread.version)

BaseRaised == \E j \in DOMAIN calls : calls[j] = Raised(BaseInstaller, install_thread.version)

\* the message templates that say the base version is installed and the
\* overlay failed
PartialFailureFormats ==
    { "Vanilla {0} installed, but Fabric failed: {err}",
      "Vanilla {0} installed, but Forge failed: {err}" }

StatesBaseSucceeded(message) ==
    message.fmt \in PartialFailureFormats /\ message.a = install_thread.version

MissingSpecifierReason ==
    Msg("Missing Forge version info for {0}", install_thread.version, <<>>, NoExc)

\* C3: the reason of a failed install run states that the base version was
\* installed and the overlay failed exactly when the base installer had
\* returned normally in that run (overlay installer error, unsupported
\* automatic install, missing Forge specifier).
C3_PartialFailureAttributed ==
    \A m \in FailureReasons : BaseReturned <=> StatesBaseSucceeded(m)

\* C3 failing state: a Forge request without specifier, the base installer
\* has returned, and the reason reported says nothing of the base version
C3_MissingSpecifierUnattributed ==
    /\ BaseReturned
    /\ MissingSpecifierReason \in FailureReasons
    /\ ~StatesBaseSucceeded(MissingSpecifierReason)

\* a run for a Forge request whose forge_version_string is None or empty
MissingSpecifierRun ==
    /\ install_thread.pc # "none"
    /\ install_thread.version_type = "forge"
    /\ Falsy(install_thread.forge_version_string)

CapabilityCheck == "supports_automatic_install"

OverlayStageCalls == OverlayInstallers \cup {CapabilityCheck}

\* C4 as claimed: a run for a Forge request without specifier makes no library
\* call at all, and the only reason it reports is the missing specifier.
C4_FailsBeforeAnyInstaller ==
    MissingSpecifierRun =>
        /\ calls = <<>>
        /\ ~SuccessReported
        /\ FailureReasons \subseteq {MissingSpecifierReason}

\* C4 amended: a run for a Forge request without specifier enters the base
\* installer only; neither an overlay installer nor supports_automatic_install
\* is entered; the run never reports success; it reports the missing specifier
\* exactly when the base installer has returned normally, and the error of the
\* outer handler otherwise.
C4_FailsBeforeOverlayStage ==
    MissingSpecifierRun =>
        /\ EnteredAt(OverlayStageCalls) = {}
        /\ ~SuccessReported
        /\ \A m \in FailureReasons :
              IF BaseReturned
              THEN m = MissingSpecifierReason
              ELSE \E e \in Errors : m = GeneralError(install_thread, e).message

\* C4 witness: the missing specifier is reported, the log holding the entry
\* and the return of the base installer and nothing else
C4_MissingSpecifierReported ==
    /\ MissingSpecifierRun
    /\ MissingSpecifierReason \in FailureReasons
    /\ calls = << Call(BaseInstaller, install_thread.version),
                  Returned(BaseInstaller, install_thread.version) >>

ManualInstallReason ==
    Msg("Vanilla {0} installed, but Forge failed: {err}", install_thread.version, <<>>,
        Exc("Automatic installation not supported for Forge {0}. Please install manually.",
            install_thread.forge_version_string))

CheckAnswered(b) ==
    \E j \in DOMAIN calls :
        calls[j] = Answered(CapabilityCheck, install_thread.forge_version_string, b)

\* C5: the Forge installer is entered only directly after
\* supports_automatic_install(forge_version_string) has answered true; when it
\* answers false the Forge installer is not entered, the run is over, it does
\* not report success, and the reason it reports is that automatic
\* installation is not supported and Forge is to be installed manually.
C5_ForgeOnlyWhenSupported ==
    /\ \A i \in EnteredAt({"install_forge_version"}) :
          /\ i > 1
          /\ calls[i - 1] = Answered(CapabilityCheck, install_thread.forge_version_string, TRUE)
    /\ CheckAnswered(FALSE) =>
          /\ EnteredAt({"install_forge_version"}) = {}
          /\ install_thread.pc = "done"
          /\ ~SuccessReported
          /\ FailureReasons \subseteq {ManualInstallReason}

\* C5 witness: the check has answered false and the manual-install reason
\* waits in the queue
C5_ManualInstallReported ==
    /\ CheckAnswered(FALSE)
    /\ ManualInstallReason \in FailureReasons

\* str(e) alone as the reason
RawError(e) == Msg("{err}", <<>>, <<>>, e)

\* C6 as claimed: when the base installer has raised, the run is over, no
\* overlay installer is entered, and the reason reported is the error the
\* installer raised, as it is.
C6_BaseFailureRaw ==
    BaseRaised =>
        /\ install_thread.pc = "done"
        /\ EnteredAt(OverlayStageCalls) = {}
        /\ ~SuccessReported
        /\ \A m \in FailureReasons : \E e \in Errors : m = RawError(e)

\* C6 amended: when the base installer has raised, the run is over, no
\* overlay installer is entered, and the reason reported is the text
\* "Error installing <requested id>: " followed by the error the installer
\* raised; it does not say that the base version is installed.
C6_BaseFailurePrefixed ==
    BaseRaised =>
        /\ install_thread.pc = "done"
        /\ EnteredAt(OverlayStageCalls) = {}
        /\ ~SuccessReported
        /\ \A m \in FailureReasons :
              /\ \E e \in Errors :
                    m = Msg("Error installing {0}: {err}", install_thread.version, <<>>, e)
              /\ ~StatesBaseSucceeded(m)

\* C6 witness: the base installer of a Fabric run has raised and the reason
\* waits in the queue
C6_BaseFailureReported ==
    /\ BaseRaised
    /\ install_thread.version_type = "fabric"
    /\ FailureReasons # {}

\* the progress_signals waiting in the queue
ProgressSignals == {signals[i] : i \in {k \in DOMAIN signals : signals[k].sig = "progress"}}

\* C7: every progress_signal of the install thread carries a percentage in
\* 0..100, whatever (value, max_value) the installers pass to setProgress:
\* value above max_value, negative value, no max_value.
C7_PercentInRange == \A s \in ProgressSignals : s.percent \in 0..100

\* C7 failing state: the base installer has called setProgress(3, 2) and the
\* percentage 150 is on its way to the foreground
C7_PercentOutOfRange ==
    /\ install_thread.pc = "in_base"
    /\ \E s \in ProgressSignals : s.percent = 150

\* the status texts run() sets when it begins the overlay step
OverlayStageFormats ==
    {"Installing Fabric for {0}...", "Installing Forge for {0} ({1})..."}

\* C8: the progress_signal run() emits when it begins the overlay step, the
\* first of that step, carries the percentage 0.
C8_OverlayStageStartsAtZero ==
    [][ install_thread.pc = "after_base" /\ EmittedKind("progress")
            => Emitted[1].percent = 0 ]_vars

\* run() has begun the overlay step and entered none of its library calls
OverlayStartPcs == {"fabric", "forge_check"}

\* C8 failing state: the overlay step has just begun, no installer of it is
\* entered yet, and its first progress_signal carries the 100 the base
\* installer reached
C8_OverlayStageStartsAtBasePercent ==
    /\ install_thread.pc \in OverlayStartPcs
    /\ \E s \in ProgressSignals : s.status.fmt \in OverlayStageFormats /\ s.percent = 100

\* C9: at most one install thread is in flight, that is started with its
\* complete_signal not yet handled by installation_complete.
C9_OneInstallInFlight == installs_in_flight <= 1

\* C9 witness: an install thread is at work, hide_loading has shown the PLAY
\* button again, no dialog is open, and the button is disabled
C9_ButtonShownWhileInstalling ==
    /\ installs_in_flight = 1
    /\ install_thread.pc \notin IdlePcs
    /\ ui.play_visible
    /\ ~ui.play_enabled
    /\ modals = <<>>

\* update_versions handles an empty list
EmptyListHandled ==
    /\ signals # <<>>
    /\ Head(signals).sig = "version"
    /\ Head(signals).versions = <<>>
    /\ signals' = Tail(signals)

\* C10: the retry counter never exceeds max_retries (5); a retry timer is set
\* only by a step that finds the counter below 5 and counts it up; and when
\* update_versions handles an empty list it opens no dialog, leaves the combo
\* box empty and, the counter having reached 5, sets no timer and starts no
\* fetch.
C10_RetriesBounded ==
    [][ /\ app'.version_retries <= max_retries
        /\ retry_timers' > retry_timers =>
              /\ EmptyListHandled
              /\ app.version_retries < max_retries
              /\ app'.version_retries = app.version_retries + 1
        /\ EmptyListHandled =>
              /\ modals' = modals
              /\ ui'.combo = <<>>
              /\ app.version_retries >= max_retries =>
                    /\ retry_timers' = retry_timers
                    /\ version_threads' = version_threads
                    /\ app'.version_retries = app.version_retries ]_vars

\* C10 witness: five retries have been made, every list was empty, and the
\* launcher has given up: no timer, no fetch, no signal, no dialog, empty combo
C10_GaveUp ==
    /\ app.version_retries = max_retries
    /\ retry_timers = 0
    /\ version_threads = 0
    /\ signals = <<>>
    /\ modals = <<>>
    /\ ui.combo = <<>>

\* update_versions is about to handle a non-empty list
Populates ==
    /\ signals # <<>>
    /\ Head(signals).sig = "version"
    /\ Head(signals).versions # <<>>

\* the list update_versions builds from versions under the flags of a, for
\* some outcome of the Forge lookups
ProjectionOf(items, versions, a) ==
    \E lookup \in ForgeLookups :
        items = ProcessedVersions(CombinedVersions(versions, a), a, lookup)

\* C11: retrying stops at the first successful fetch.  When update_versions
\* handles a non-empty list after the k fetches before it in the same load
\* came back empty (k at most max_retries), exactly k retries have been
\* scheduled, the combo box holds the projection of that list, the retry
\* counter is 0 again, and no fetch is running, scheduled or unhandled.
C11_RetriesStopAtSuccess ==
    [][ ( /\ Populates
          /\ signals' = Tail(signals)
          /\ load_history.empty_results <= max_retries )
        => /\ load_history.retries = load_history.empty_results
           /\ ui'.combo # <<>>
           /\ ProjectionOf(ui'.combo, Head(signals).versions, app')
           /\ app'.version_retries = 0
           /\ retry_timers' = 0
           /\ version_threads' = 0
           /\ signals' = <<>> ]_vars

\* two fetches came back empty, two retries were scheduled, and the list of
\* the third fetch is about to be handled
C11_SucceedsAfterTwoEmpty ==
    /\ Populates
    /\ load_history.empty_results = 2
    /\ load_history.retries = 2
    /\ app.version_retries = 2
    /\ retry_timers = 0
    /\ version_threads = 0

\* the list version_combo holds was projected by the last update_versions
\* that handled a non-empty list
Projected == ui.combo # <<>>

\* the catalog the list in version_combo was projected from, and the flags
LastProjection == load_history.projected[1]

\* the entry was made from a record of the given type
DerivedFrom(entry, type) ==
    \E j \in 1..Len(LastProjection.versions) :
        /\ LastProjection.versions[j].id = entry.data.id
        /\ LastProjection.versions[j].type = type

\* the entry is a Fabric or Forge entry
IsOverlay(entry) == entry.data.type \in OverlayTypes

\* C12: the projector never emits a Fabric or Forge entry for a snapshot
\* record: whatever the catalog and the display flags, every overlay entry
\* of the projected list carries the id of a release record.
C12_NoOverlayOnSnapshot ==
    Projected =>
        /\ load_history.projected # <<>>
        /\ LastProjection.items = ui.combo
        /\ \A i \in 1..Len(ui.combo) :
              IsOverlay(ui.combo[i]) =>
                 /\ ~DerivedFrom(ui.combo[i], "snapshot")
                 /\ DerivedFrom(ui.combo[i], "release")

\* snapshots are shown beside Fabric and Forge entries
C12_SnapshotsBesideOverlays ==
    /\ Projected
    /\ LastProjection.show_fabric /\ LastProjection.show_forge
    /\ \E i \in 1..Len(ui.combo) : DerivedFrom(ui.combo[i], "snapshot")
    /\ \E i \in 1..Len(ui.combo) : ui.combo[i].data.type = "fabric"
    /\ \E i \in 1..Len(ui.combo) : ui.combo[i].data.type = "forge"

\* C13: when show_snapshots is false the projected list holds no entry made
\* from a snapshot record, whatever the catalog.
C13_SnapshotsHidden ==
    (Projected /\ ~LastProjection.show_snapshots) =>
        \A i \in 1..Len(ui.combo) : ~DerivedFrom(ui.combo[i], "snapshot")

\* a catalog with two snapshots was projected with show_snapshots off
C13_CatalogWithSnapshotsFiltered ==
    /\ Projected
    /\ ~LastProjection.show_snapshots
    /\ LastProjection.versions = CatalogUnsorted

\* release time of the record the entry was made from
TimeOf(entry) ==
    LET j == CHOOSE k \in 1..Len(LastProjection.versions) :
                 LastProjection.versions[k].id = entry.data.id
    IN LastProjection.versions[j].releaseTime

IsPlain(entry) == entry.data.type = "vanilla"

BucketTypes == {"snapshot", "release"}

\* C14: in the projected list every entry made from a snapshot precedes every
\* entry made from a release, and within each of the two groups the vanilla
\* entries stand in non-increasing order of releaseTime, whatever the order
\* of the records in the catalog.
C14_SnapshotsFirstNewestFirst ==
    Projected =>
        \A i \in 1..Len(ui.combo), j \in 1..Len(ui.combo) :
            i < j =>
               /\ ~(DerivedFrom(ui.combo[i], "release") /\ DerivedFrom(ui.combo[j], "snapshot"))
               /\ \A type \in BucketTypes :
                     ( /\ IsPlain(ui.combo[i]) /\ IsPlain(ui.combo[j])
                       /\ DerivedFrom(ui.combo[i], type) /\ DerivedFrom(ui.combo[j], type) )
                     => TimeOf(ui.combo[i]) >= TimeOf(ui.combo[j])

\* the catalog that lists older records first was projected with snapshots
\* shown: two snapshot entries and the vanilla entries of two releases
C14_UnsortedCatalogProjected ==
    /\ Projected
    /\ LastProjection.versions = CatalogUnsorted
    /\ LastProjection.show_snapshots
    /\ Cardinality({i \in 1..Len(ui.combo) : IsPlain(ui.combo[i])}) = 4

\* update_versions is about to project the catalog it projected last, under
\* the display flags it projected it with
SameInputs ==
    /\ Populates
    /\ load_history.projected # <<>>
    /\ LastProjection.versions = Head(signals).versions
    /\ LastProjection.show_fabric = app.show_fabric
    /\ LastProjection.show_forge = app.show_forge
    /\ LastProjection.show_snapshots = app.show_snapshots

Persisted == IF settings_file = <<>> THEN None ELSE settings_file[1].last_used_version

\* id is a composite identity: it has a '-' and a part after the last one
IsComposite(id) ==
    /\ ~Falsy(id)
    /\ \E i \in 1..Len(id) : id[i] = Dash

\* the overlay entries of items made for the base id
OverlaysOf(items, base) ==
    {i \in 1..Len(items) : IsOverlay(items[i]) /\ items[i].data.id = base}

\* C16: when update_versions has filled the list, no entry has the display
\* name that was current before, the persisted last_used_version is a
\* composite identity and the part after its last '-' is the id of a Fabric
\* or Forge entry of the list, then the entry made current is a Fabric or
\* Forge entry with that id, not the vanilla entry.
C16_CompositeRestoresOverlay ==
    [][ ( /\ Populates
          /\ signals' = Tail(signals)
          /\ FindText(ui'.combo, CurrentText(ui)) = -1
          /\ IsComposite(Persisted)
          /\ OverlaysOf(ui'.combo, SplitLast(Persisted)) # {} )
        => (ui'.current_index + 1) \in OverlaysOf(ui'.combo, SplitLast(Persisted)) ]_vars

\* the stored document names the Fabric install of 1.2.1, the list is empty,
\* and a catalog with release 1.2.1 is about to be projected with an overlay
\* flag on
C16_CompositeStoredListPending ==
    /\ Populates
    /\ ui.combo = <<>>
    /\ Persisted = FabricIdFor(V1201)
    /\ Head(signals).versions = CatalogUnsorted
    /\ app.show_fabric

\* C17: for every reprojection, also one that fills the list only after one
\* or more fetches failed, if the display name that was current before the
\* reload is the text of an entry of the new list, that entry is current
\* afterwards.
C17_DisplayNameKept ==
    [][ ( /\ Populates
          /\ signals' = Tail(signals)
          /\ load_history.selection # <<>>
          /\ FindText(ui'.combo, load_history.selection) >= 0 )
        => CurrentText(ui') = load_history.selection ]_vars

\* the same for the reprojections that find the old list still in the combo
\* box: no empty list was handled since the reload started
C17_DisplayNameKeptWithoutRetry ==
    [][ ( /\ Populates
          /\ signals' = Tail(signals)
          /\ load_history.empty_results = 0
          /\ load_history.selection # <<>>
          /\ FindText(ui'.combo, load_history.selection) >= 0 )
        => CurrentText(ui') = load_history.selection ]_vars

\* an entry other than the first was current when the reload started, a
\* fetch failed, the combo box has been cleared, and the catalog that holds
\* that entry is about to be projected
C17_SelectionLostByRetry ==
    /\ Populates
    /\ load_history.empty_results = 1
    /\ ui.combo = <<>>
    /\ load_history.selection = FabricLabel \o V120
    /\ app.show_fabric

\* the vanilla entry of the id the current install run was requested for
RequestedPlain ==
    [id |-> install_thread.version, type |-> "vanilla", forge_version |-> None]

\* C18: when the install worker reports success for a vanilla request on id
\* X, the test of check_and_install_minecraft, made right after on the same
\* directory, finds the vanilla entry X installed.
C18_SuccessThenDetected ==
    [][ ( /\ install_thread.version_type = "vanilla"
          /\ EmittedKind("complete")
          /\ Emitted[1].success )
        => IsInstalled(RequestedPlain, fs'[install_thread.minecraft_directory]) ]_vars

\* a vanilla run has ended, its success is waiting to be handled, and the jar
\* of the requested id is in the directory of the run
C18_PlainSuccessReported ==
    /\ install_thread.version_type = "vanilla"
    /\ install_thread.pc = "done"
    /\ SuccessReported
    /\ install_thread.version \in fs[install_thread.minecraft_directory].jars

\* PLAY can be pressed with a Forge entry current
PlaysForge ==
    /\ modals = <<>>
    /\ ui.play_visible /\ ui.play_enabled
    /\ ui.current_index >= 0
    /\ ~Falsy(app.username)
    /\ ui.combo[ui.current_index + 1].data.type = "forge"

\* the step is play_minecraft finding the entry installed: it goes on to
\* launch_minecraft, which starts a launch thread or reports a problem
FoundInstalled ==
    \/ modals' # <<>> /\ modals'[1].kind = "launch_problem"
    \/ Len(launch_threads') > Len(launch_threads)

\* the step is play_minecraft finding the entry not installed: it asks
FoundNotInstalled == modals' # <<>> /\ modals'[1].kind = "question"

\* the jar of id exists and some name under versions/ contains id and,
\* compared case-insensitively, the token forge, in any order
ForgeAnywhere(id, d) ==
    /\ id \in d.jars
    /\ \E name \in d.versions : Contains(name, id) /\ Contains(Lower(name), ForgeToken)

\* C19: for a Forge entry check_and_install_minecraft finds the entry
\* installed exactly when the jar of the base id exists and at least one name
\* under versions/ contains the base id and contains the token forge compared
\* case-insensitively, in any order and at any position.
C19_ForgeDetectedAnywhere ==
    [][ PlaysForge =>
          LET claimed == ForgeAnywhere(ui.combo[ui.current_index + 1].data.id,
                                       fs[app.minecraft_directory])
          IN /\ FoundInstalled => claimed
             /\ FoundNotInstalled => ~claimed ]_vars

\* the install question is open for a Forge entry although the jar exists
\* and a name under versions/ holds the id and the token
C19_InstalledForgeAsked ==
    /\ modals # <<>>
    /\ modals[1].kind = "question"
    /\ modals[1].data.type = "forge"
    /\ ForgeAnywhere(modals[1].data.id, fs[app.minecraft_directory])

\* the positions of raw that hold neither a token starting with the
\* quick-play prefix nor the token that follows such a token
KeptPositions(raw) ==
    {i \in 1..Len(raw) :
        /\ ~StartsWith(raw[i], QuickPlay)
        /\ ~(i > 1 /\ StartsWith(raw[i - 1], QuickPlay))}

\* the tokens of raw at the positions in keep, in their order
TokensAt(raw, keep) ==
    LET upto[i \in 0..Len(raw)] ==
            IF i = 0 THEN <<>>
            ELSE IF i \in keep THEN Append(upto[i - 1], raw[i]) ELSE upto[i - 1]
    IN upto[Len(raw)]

\* the runs that reached subprocess.Popen
Started == {i \in 1..Len(processes) : processes[i].started # <<>>}

\* C20: for every argument list of get_minecraft_command, the command passed
\* to subprocess.Popen is that list without every token that starts with
\* --quickPlay and without the one token after each such token, the other
\* tokens in their order; and no token of it starts with --quickPlay.
C20_FlagsAndValuesRemoved ==
    \A i \in Started :
        LET raw == processes[i].raw
            command == processes[i].started[1]
        IN /\ command = TokensAt(raw, KeptPositions(raw))
           /\ \A k \in 1..Len(command) : ~StartsWith(command[k], QuickPlay)

\* the part of it that the loop of run() does establish: no token of the
\* command starts with --quickPlay, the command is raw without some of its
\* tokens, and every token that neither starts with the prefix nor follows
\* a token that does is kept
C20_NoQuickPlayTokenLeft ==
    \A i \in Started :
        LET raw == processes[i].raw
            command == processes[i].started[1]
        IN /\ \A k \in 1..Len(command) : ~StartsWith(command[k], QuickPlay)
           /\ \E keep \in SUBSET (1..Len(raw)) :
                 /\ KeptPositions(raw) \subseteq keep
                 /\ command = TokensAt(raw, keep)

\* a process was started from a list in which one quick-play flag directly
\* follows another, and the token after the second one is in the command
C20_ValueOfSecondFlagKept ==
    \E i \in Started :
        /\ processes[i].raw = <<QuickPlayPath, QuickPlaySingle, Value>>
        /\ processes[i].started[1] = <<Value>>

\* a process was started from the list --quickPlayPath v --quick v
C20_PairRemoved ==
    \E i \in Started :
        /\ processes[i].raw = <<QuickPlayPath, Value, QuickFlag, Value>>
        /\ processes[i].started[1] = <<QuickFlag, Value>>

\* the pending launch signals, in the order of their runs
LaunchSignals == SelectSeq(signals, LAMBDA s : s.sig = "launch")

\* the events in which subprocess.Popen returned a process
PopenReturned == {"running", "exit_0", "exit_1"}

\* the error text of a process that had exited with code 1 at the check
ExitedWithCode1 ==
    Exc("Failed to execute Minecraft: Process exited with code {0}", <<"1">>)

\* C21: for every run whose process was started, the launch is reported
\* as failed exactly when the process had exited with a non-zero status at
\* the liveness check, and then the error holds the exit code; a process
\* still running or exited with status 0 is reported as launched.
C21_FailedIffNonZeroExit ==
    /\ Len(LaunchSignals) = Len(processes)
    /\ \A i \in 1..Len(processes) :
          processes[i].event \in PopenReturned =>
             /\ ~LaunchSignals[i].success <=> processes[i].event = "exit_1"
             /\ ~LaunchSignals[i].success => LaunchSignals[i].message.err = ExitedWithCode1

\* a run whose process had exited with status 0 reported the launch
C21_ExitZeroReportedLaunched ==
    \E i \in 1..Len(processes) :
        /\ processes[i].event = "exit_0"
        /\ Len(LaunchSignals) >= i
        /\ LaunchSignals[i].success

\* the error text of a process that subprocess.Popen could not start
PopenFailed == Exc("Failed to execute Minecraft: {popen error}", <<>>)

LoadCalled == app # NotConstructed

\* C23: for every state of the settings document (missing, unparsable, some
\* keys missing, all keys present) load_settings returns to its caller, and
\* the settings it returns hold every key, a key that the document lacks
\* with its default.
C23_LoadReturnsEveryField ==
    LoadCalled =>
        /\ "settings" \in DOMAIN app
        /\ \A k \in SettingsKeys :
              /\ k \in DOMAIN app.settings
              /\ (settings_file = <<>> \/ ~Parses(settings_file)
                     \/ k \notin DOMAIN settings_file[1])
                    => app.settings[k] = Defaults(NoShows)[k]

\* load_settings was called with no settings file and raised KeyError for
\* the key show_fabric
C23_KeyErrorOnMissingFile ==
    /\ settings_file = <<>>
    /\ LoadCalled
    /\ "raised" \in DOMAIN app
    /\ app.key = "show_fabric"

\* the step is Save of the settings dialog: the dialog closes and a load of
\* the catalog is started
DialogSaved ==
    /\ Constructed
    /\ modals # <<>>
    /\ modals[Len(modals)].kind = "settings"
    /\ modals' = SubSeq(modals, 1, Len(modals) - 1)
    /\ version_threads' # version_threads

\* C24: whatever game directory is configured, after Save the directory
\* that holds the settings document exists and the document holds the
\* settings that were saved.
C24_SaveCreatesDocumentDirectory ==
    [][DialogSaved =>
          /\ fs'[DEFAULT_MINECRAFT_DIR].exists
          /\ settings_file' = <<SettingsDoc(app')>>]_vars

\* a game directory other than the default one has been saved while the
\* default directory is absent: the game directory exists, the directory of
\* the settings document does not, and no document was written
C24_CustomDirectorySaveLost ==
    /\ Constructed
    /\ app.minecraft_directory = CustomDir
    /\ fs[CustomDir].exists
    /\ ~fs[DEFAULT_MINECRAFT_DIR].exists
    /\ settings_file = <<>>

\* Save does create the directory of the document when it is the configured
\* game directory
C24_SaveCreatesGameDirectory ==
    [][DialogSaved =>
          /\ fs'[app'.minecraft_directory].exists
          /\ app'.minecraft_directory = DEFAULT_MINECRAFT_DIR
                => settings_file' = <<SettingsDoc(app')>>]_vars

\* n is a positive multiple of 1024
PositiveMultiple(n) == n > 0 /\ n % 1024 = 0

\* C25: in every state of the constructed launcher, whether its settings
\* were loaded from a document with any stored value or saved in the
\* settings dialog, ram_allocation is a positive multiple of 1024.
C25_RamPositiveMultiple ==
    Constructed => PositiveMultiple(app.ram_allocation)

\* the launcher runs with the 1500 it loaded from the document
C25_StoredRamTaken ==
    /\ Constructed
    /\ settings_file # <<>>
    /\ Parses(settings_file)
    /\ settings_file[1].ram_allocation = 1500
    /\ app.ram_allocation = 1500

\* the part of it the code establishes: ram_allocation is a positive multiple
\* of 1024 whenever the value load_settings returned was one, and in the
\* document after every Save of the settings dialog
C25_RamKeptPositiveMultiple ==
    Constructed =>
        /\ PositiveMultiple(app.settings.ram_allocation)
              => PositiveMultiple(app.ram_allocation)
        /\ app.ram_allocation # app.settings.ram_allocation
              => PositiveMultiple(app.ram_allocation)

\* the document holds key k
Holds(file, k) == file # <<>> /\ Parses(file) /\ k \in DOMAIN file[1]

\* with DEFAULT_SETTINGS holding the display flags, the settings that
\* load_settings returns to __init__ hold every key: with the value of the
\* document if the document holds the key, with the default if not
C23_CompleteWithDisplayDefaults ==
    [][app = NotConstructed =>
          \A k \in SettingsKeys :
              /\ k \in DOMAIN app'.settings
              /\ app'.settings[k] = IF Holds(settings_file, k) THEN settings_file[1][k]
                                    ELSE Defaults(NoShows)[k]]_vars

\* C26: the foreground makes no collaborator call that can fail on the
\* network: the slot that fills the list from the catalog, which runs in the
\* foreground, has looked up no Forge build.
C26_NoLookupInForeground ==
    load_history.projected # <<>> =>
        LookedUp(LastProjection.versions, LastProjection) = {}

\* update_versions has looked up the Forge build of 1.2 while filling the
\* list, and the lookup gave none
C26_LookupMadeBySlot ==
    /\ load_history.projected # <<>>
    /\ V120 \in LookedUp(LastProjection.versions, LastProjection)
    /\ V120 \notin LastProjection.resolved

\* the play button can be pressed
PlayReady == ui.play_visible /\ ui.play_enabled

\* a failed install or a failed launch has been reported and waits to be
\* handled, or the box of a failed identity resolution is open
FailureReported ==
    \/ \E i \in 1..Len(signals) :
          signals[i].sig \in {"complete", "launch"} /\ ~signals[i].success
    \/ \E i \in 1..Len(modals) : modals[i].kind = "launch_problem"

StageFormat ==
    CASE install_thread.pc = "in_base" -> "Installing Vanilla {0}..."
      [] install_thread.pc = "in_fabric" -> "Installing Fabric for {0}..."
      [] install_thread.pc = "in_forge" -> "Installing Forge for {0} ({1})..."
      [] OTHER -> ""

\* the step emits a progress_signal while an installer call is going on
EmittedInInstaller ==
    /\ InInstaller
    /\ install_thread'.pc = install_thread.pc
    /\ Len(signals') = Len(signals) + 1
    /\ signals'[Len(signals')].sig = "progress"

\* C28: every progress_signal emitted while an installer call is going on
\* carries the status text of that stage, whatever the installer passes to
\* setStatus.
C28_StageStatusDuringStage ==
    [][EmittedInInstaller => signals'[Len(signals')].status.fmt = StageFormat]_vars

\* the base installer has passed a status to setStatus and the progress_signal
\* emitted for it, while the call is going on, carries the installer's text
C28_InstallerStatusEmitted ==
    /\ install_thread.pc = "in_base"
    /\ signals # <<>>
    /\ signals[Len(signals)].sig = "progress"
    /\ signals[Len(signals)].status = InstallerStatus

\* the part of it the code establishes: as long as the installer has passed
\* no status of its own, the signals emitted during its call carry the
\* status text of the stage
C28_StageStatusUntilInstallerSetsOne ==
    [][(EmittedInInstaller /\ install_thread'.current_status # InstallerStatus)
          => signals'[Len(signals')].status.fmt = StageFormat]_vars

\* the installed ids the search of launch_minecraft accepts for an overlay entry
Identities(version_data, installed) ==
    IF version_data.type = "fabric" THEN FabricMatches(installed, version_data.id)
    ELSE ForgeMatches(installed, version_data.id)

\* C29: for every overlay entry of the list and the content of the versions
\* directory, if check_and_install_minecraft finds the entry installed, the
\* search of launch_minecraft on the same content finds an identity for it.
C29_DetectedThenResolved ==
    \A i \in 1..Len(ui.combo) :
        LET version_data == ui.combo[i].data
            d == fs[app.minecraft_directory]
        IN (version_data.type \in OverlayTypes /\ IsInstalled(version_data, d))
              => Identities(version_data, d.versions) # {}

\* PLAY on the Fabric entry found it installed by the directory
\* fabric-loader9-1.2, and launch_minecraft reports that it could not find
\* the installed Fabric
C29_DetectedButNotFound ==
    /\ FabricDirJoined \in fs[app.minecraft_directory].versions
    /\ \E i \in 1..Len(modals) :
          /\ modals[i].kind = "launch_problem"
          /\ modals[i].text = "Could not find installed Fabric"

\* for Forge entries the detection implies the resolution
C29_ForgeDetectedThenResolved ==
    \A i \in 1..Len(ui.combo) :
        LET version_data == ui.combo[i].data
            d == fs[app.minecraft_directory]
        IN (version_data.type = "forge" /\ IsInstalled(version_data, d))
              => Identities(version_data, d.versions) # {}

\* the entry PLAY is pressed on
Played == ui.combo[ui.current_index + 1].data

\* the names under versions/ of the game directory
Listed == fs[app.minecraft_directory].versions

\* the listed identities the claim's predicate accepts for the played entry
Accepted ==
    IF Played.type = "fabric"
    THEN {v \in Listed : StartsWith(v, FabricLoaderPrefix) /\ EndsWith(v, Played.id)}
    ELSE {v \in Listed : Contains(v, Played.id) /\ Contains(Lower(v), ForgeToken)}

\* PLAY can be pressed with some entry current
Plays ==
    /\ modals = <<>>
    /\ ui.play_visible /\ ui.play_enabled
    /\ ui.current_index >= 0
    /\ ~Falsy(app.username)

\* the step starts a launch thread
LaunchStarted == Len(launch_threads') > Len(launch_threads)

InstalledFor(name) ==
    IF StartsWith(name, FabricLoaderPrefix)
    THEN LET i == CHOOSE j \in 1..Len(name) :
                      name[j] = Dash /\ \A k \in (j+1)..Len(name) : name[k] # Dash
         IN SubSeq(name, i + 1, Len(name))
    ELSE LET i == CHOOSE j \in 1..Len(name) :
                      name[j] = Dash /\ \A k \in 1..(j-1) : name[k] # Dash
         IN SubSeq(name, 1, i - 1)

\* C31: when launch_minecraft starts a launch thread for a Fabric or Forge
\* entry with base id X, the version it launches is a directory installed
\* for X, never one installed for another base id of which X is a suffix or
\* a substring.
C31_ResolvedForSameBase ==
    [][(Plays /\ LaunchStarted /\ Played.type \in OverlayTypes)
          => InstalledFor(launch_threads'[Len(launch_threads')].version) = Played.id]_vars

\* the list offers overlays for 1.2 only, and a launch thread runs the Forge
\* directory of 1.2.1
C31_LongerBaseLaunched ==
    /\ launch_threads # <<>>
    /\ launch_threads[1].version = ForgeDirLongerBase
    /\ \A i \in 1..Len(ui.combo) : ui.combo[i].data.type = "forge" => ui.combo[i].data.id = V120

\* a launch thread runs the Fabric directory of 1.1.2 while that of 1.2 is
\* installed as well
C31_SuffixBaseLaunched ==
    /\ launch_threads # <<>>
    /\ launch_threads[1].version = FabricIdFor(<<"1", ".", "1", ".", "2">>)
    /\ FabricIdFor(V120) \in fs[app.minecraft_directory].versions

\* the step is installation_complete for a successful run of the only
\* install thread in flight
InstallSucceeded ==
    /\ signals # <<>>
    /\ Head(signals).sig = "complete"
    /\ Head(signals).success
    /\ installs_in_flight = 1
    /\ installs_in_flight' = 0

\* C32: when installation_complete handles the success of an install and
\* launch_minecraft starts a launch thread, the entry it launches is the
\* entry the install thread was started for: same id and same type.
C32_LaunchesInstalledEntry ==
    [][(InstallSucceeded /\ LaunchStarted)
          => /\ Played.id = install_thread.version
             /\ Played.type = install_thread.version_type]_vars

\* the success of the install of Fabric 1.2 waits to be handled while the
\* current entry is plain 1.2: the selection was changed while the install
\* thread ran, and installation_complete will launch the current entry
C32_SelectionChangedBeforeCompletion ==
    /\ signals # <<>>
    /\ Head(signals).sig = "complete"
    /\ Head(signals).success
    /\ installs_in_flight = 1
    /\ install_thread.version_type = "fabric"
    /\ ui.current_index >= 0
    /\ Played.type = "vanilla"
    /\ Played.id = install_thread.version
    /\ PendingLaunches < MaxLaunches

\* the step starts a MinecraftVersionThread
FetchStarted == version_threads' > version_threads

\* C33: load_versions never starts a fetch thread while an earlier fetch
\* thread is still running or the timer of a retry is armed, so that at most
\* one fetch is running or scheduled at any time.
C33_OneFetchAtATime ==
    [][FetchStarted => (version_threads = 0 /\ retry_timers = 0)]_vars

\* two fetch threads run at once: the settings dialog was saved while the
\* fetch of the startup load was still running
C33_TwoFetchesRunning == version_threads = 2

\* a fetch thread runs while the timer of a retry of the earlier load is armed
C33_FetchBesideRetry == version_threads = 1 /\ retry_timers = 1

\* the retry timer itself never starts a fetch beside a running one unless a
\* Save of the settings dialog came in between: without the dialog at most
\* one fetch is running or scheduled
C33_OneFetchWithoutDialog == version_threads + retry_timers <= 1

\* C34: whenever update_versions handles the empty result of the only
\* pending fetch and the load in progress, started by __init__ or by a Save
\* of the settings dialog, has been retried fewer than max_retries (5) times,
\* it schedules a retry, whatever the earlier loads used up.
C34_FullBudgetPerLoad ==
    [][(EmptyListHandled /\ PendingLoads = 1 /\ load_history.retries < max_retries)
          => retry_timers' = retry_timers + 1]_vars

\* the first fetch of a load started by Save came back empty and is about to
\* be handled while the counter still stands at 5 from the load before
C34_LoadAfterExhaustion ==
    /\ signals # <<>>
    /\ Head(signals).sig = "version"
    /\ Head(signals).versions = <<>>
    /\ PendingLoads = 1
    /\ load_history.retries = 0
    /\ load_history.empty_results = 0
    /\ app.version_retries = max_retries

\* the load started by __init__ is retried with the full budget
C34_StartupLoadRetried ==
    [][(EmptyListHandled /\ load_history.retries < max_retries)
          => retry_timers' = retry_timers + 1]_vars

\* the entry of the last projection that was current when the window was closed
Left(h) ==
    LET items == h.projected[1].items
    IN items[CHOOSE i \in 1..Len(items) : items[i].text = h.selection]

\* update_versions is about to fill the list for the first time in a session
\* started on the document an earlier session left: that session had an
\* entry current, and the document holds the id of that entry
StartedAfresh ==
    /\ Populates
    /\ ui.combo = <<>>
    /\ app.version_retries = 0
    /\ load_history.projected # <<>>
    /\ load_history.selection # <<>>
    /\ settings_file # <<>>
    /\ settings_file[1].last_used_version = Left(load_history).data.id

\* C35: when a session that starts on the document of an earlier session
\* fills the combo with the list that session had, the entry it makes current is the
\* entry that was current and persisted there: same id and same type.
C35_SelectionRestored ==
    [][(StartedAfresh
          /\ ui'.combo = load_history.projected[1].items)
        => /\ ui'.current_index >= 0
           /\ ui'.combo[ui'.current_index + 1].data = Left(load_history).data]_vars

\* the session that was left with Fabric 1.2 current and 1.2 persisted has
\* been started again and is about to fill its list
C35_FabricLeftBeforeRestart ==
    /\ StartedAfresh
    /\ Left(load_history).data.type = "fabric"
    /\ Left(load_history).data.id = V120

\* an entry of type vanilla that was current and persisted is restored
C35_PlainEntryRestored ==
    [][(StartedAfresh
          /\ Left(load_history).data.type = "vanilla"
          /\ ui'.combo = load_history.projected[1].items)
        => /\ ui'.current_index >= 0
           /\ ui'.combo[ui'.current_index + 1].data = Left(load_history).data]_vars

\* find_forge_version returns nothing for every id
NoSpecifier == [r \in ReleaseIds |-> "none"]

NotForge(entry) == entry.data.type # "forge"

\* the ids of the Forge entries of items
ForgeEntryIds(items) ==
    {items[i].data.id : i \in {j \in 1..Len(items) : items[j].data.type = "forge"}}

\* C36: when update_versions fills the list, a release record has its Forge
\* entry exactly when find_forge_version was called for its id and returned
\* a build string; whatever the lookups do, no dialog opens and the other
\* entries are, in their order, the list that results when every lookup
\* returns nothing.
C36_ForgeEntryIffSpecifier ==
    [][(Populates /\ signals' = Tail(signals))
          => /\ ForgeEntryIds(ui'.combo) = LastProjection'.resolved
             /\ modals' = modals
             /\ SelectSeq(ui'.combo, NotForge)
                    = ProcessedVersions(CombinedVersions(Head(signals).versions, app'),
                                        app', NoSpecifier)]_vars

\* the list holds the Forge entry of 1.2.1 and none of 1.2, whose lookup
\* failed or returned nothing, and the plain and Fabric entries of both
C36_OneLookupFailed ==
    /\ load_history.projected # <<>>
    /\ ui.combo = LastProjection.items
    /\ LastProjection.show_forge
    /\ LastProjection.resolved = {V1201}
    /\ \E i, j \in 1..Len(ui.combo) :
          /\ ui.combo[i].data = [id |-> V120, type |-> "fabric", forge_version |-> None]
          /\ ui.combo[j].data = [id |-> V1201, type |-> "forge",
                                 forge_version |-> ForgeBuildFor(V1201)]
          /\ i > j

\* the document is one that save_settings wrote, or holds its keys at least
SavedDocument ==
    /\ settings_file # <<>>
    /\ Parses(settings_file)
    /\ SettingsKeys \subseteq DOMAIN settings_file[1]

\* C37: load_settings, called on a document that holds every key a Save
\* writes, returns settings that hold for each of these keys the value of
\* the document, whatever other keys the document holds.
C37_LoadReturnsSaved ==
    [][(app = NotConstructed /\ SavedDocument)
          => /\ "settings" \in DOMAIN app'
             /\ \A k \in SettingsKeys : app'.settings[k] = settings_file[1][k]]_vars

\* load_settings was called on a document that holds every key and raised
\* KeyError
C37_KeyErrorOnSavedDocument ==
    /\ SavedDocument
    /\ "raised" \in DOMAIN app
    /\ app.raised = "KeyError"

\* what json.load reads back from what json.dump wrote is the dictionary
\* save_settings wrote, value by value
C37_JsonRoundTrip ==
    Constructed =>
        \A k \in SettingsKeys :
            JsonLoad(JsonDump(k, SettingsDoc(app)[k])) = SettingsDoc(app)[k]

\* every successful save leaves the document holding the eight settings as
\* the launcher holds them
C37_SaveWritesEveryKey ==
    [][(Constructed /\ settings_file' # settings_file)
          => settings_file' = <<SettingsDoc(app')>>]_vars

\* a session started on a document with an unknown key has the known
\* settings of the document
C37_UnknownKeyLoaded ==
    /\ Constructed
    /\ "theme" \in DOMAIN app.settings
    /\ \A k \in SettingsKeys : app.settings[k] = StoredDoc[k]

\* the question box of check_and_install_minecraft is the open dialog
Asked == modals # <<>> /\ modals[Len(modals)].kind = "question"

\* the step starts an install thread
InstallStarted == installs_in_flight' > installs_in_flight

\* the step closes the question box and starts no install thread: No
Declined ==
    /\ Asked
    /\ modals' = SubSeq(modals, 1, Len(modals) - 1)
    /\ ~InstallStarted

\* C38: an install thread is started only by the answer Yes to the question
\* that check_and_install_minecraft asked for an entry it found not
\* installed, and it installs that entry; the answer No starts neither an
\* install thread nor a launch thread and leaves the directories, the
\* selection and the play button, visible and enabled, as they were.
C38_InstallOnlyOnConfirm ==
    [][ /\ InstallStarted =>
              /\ Asked
              /\ ~IsInstalled(modals[Len(modals)].data, fs[app.minecraft_directory])
              /\ install_thread'.version = modals[Len(modals)].data.id
              /\ install_thread'.version_type = modals[Len(modals)].data.type
        /\ Declined =>
              /\ install_thread' = install_thread
              /\ launch_threads' = launch_threads
              /\ fs' = fs
              /\ app' = app
              /\ ui' = ui
              /\ ui.play_visible /\ ui.play_enabled ]_vars

\* the install of Forge 1.2 was confirmed and its thread has not run yet
C38_InstallConfirmed ==
    /\ installs_in_flight = 1
    /\ install_thread.pc = "start"
    /\ install_thread.version_type = "forge"
    /\ modals = <<>>
    /\ ~ui.play_enabled

====
